---- MODULE Spec2Model ----
(***************************************************************************)
(* reddit-scout: the scheduled-post tracker and the keyword-alert registry *)
(* of scripts/scheduler.js, and the polling / de-duplication cycle of      *)
(* scripts/notify.js.                                                      *)
(*                                                                         *)
(* Text is a sequence of one-character strings, a JSON document is the     *)
(* value it holds, a JavaScript Set is the sequence of its elements in     *)
(* insertion order, a Date is its number of clock ticks.                   *)
(***************************************************************************)
EXTENDS Integers, Sequences, FiniteSets, TLC

VARIABLES
  now,        \* the wall clock (Date.now())
  cmd,        \* the command line of the latest invocation
  result,     \* what the latest invocation printed
  posts,      \* data/scheduled-posts.json
  history,    \* data/post-history.json
  alerts,     \* data/keyword-alerts.json
  seenFile,   \* data/seen-matches.json
  feed,       \* what reddit.com lists for each subreddit
  kPc,        \* scheduler.js checkAlerts: where the cycle stands
  kAlerts,    \* scheduler.js checkAlerts: alerts
  kI,         \* scheduler.js checkAlerts: position in enabledAlerts
  kJ,         \* scheduler.js checkAlerts: position in alert.subreddits
  kMatches,   \* scheduler.js checkAlerts: matches
  competitorFile, \* data/competitors.json
  aPc,        \* notify.js checkAlerts: where the task stands
  aAlerts,    \* notify.js checkAlerts: alerts
  aLoaded,    \* notify.js checkAlerts: loadJSON(SEEN_FILE, [])
  aSeen,      \* notify.js checkAlerts: seen
  aI,         \* notify.js checkAlerts: position in alerts
  aJ,         \* notify.js checkAlerts: position in alert.subreddits
  aNew,       \* notify.js checkAlerts: newMatches
  aPosts,     \* notify.js checkAlerts: posts, the listing last read
  cPc,        \* notify.js checkCompetitors: where the task stands
  cConfig,    \* notify.js checkCompetitors: config
  cLoaded,    \* notify.js checkCompetitors: loadJSON(SEEN_FILE, [])
  cSeen,      \* notify.js checkCompetitors: seen
  cJ,         \* notify.js checkCompetitors: position in config.subreddits
  cNew,       \* notify.js checkCompetitors: mentions
  cPosts,     \* notify.js checkCompetitors: posts, the listing last read
  mPc,        \* scout.js multiScan: where the scan stands
  mSubs,      \* scout.js multiScan: subs
  mI,         \* scout.js multiScan: position in subs
  mResults,   \* scout.js multiScan: results
  digestFile, \* data/daily-digest.json
  dPc,        \* generateDigest / generateDailyDigest: where the run stands
  dSubs,      \* generateDigest: subreddits; generateDailyDigest: subs
  dJ,         \* generateDigest / generateDailyDigest: position in the list
  dCutoff,    \* generateDigest / generateDailyDigest: cutoff
  dAll,       \* generateDigest / generateDailyDigest: allPosts
  docs        \* scheduled-posts.json, post-history.json: there and parsable, or not

postVars == <<posts, history, docs>>
cycleVars == <<kPc, kAlerts, kI, kJ, kMatches>>
aVars == <<aPc, aAlerts, aLoaded, aSeen, aI, aJ, aNew, aPosts>>
cVars == <<cPc, cConfig, cLoaded, cSeen, cJ, cNew, cPosts>>
notifyVars == <<aVars, cVars>>
worldVars == <<seenFile, feed, competitorFile, notifyVars>>
scanVars == <<mPc, mSubs, mI, mResults>>
digestVars == <<digestFile, dPc, dSubs, dJ, dCutoff, dAll>>
nonPostVars == <<alerts, cycleVars, worldVars, scanVars, digestVars>>
vars == <<now, cmd, result, posts, history, alerts, seenFile, feed,
          kPc, kAlerts, kI, kJ, kMatches, competitorFile,
          aPc, aAlerts, aLoaded, aSeen, aI, aJ, aNew, aPosts,
          cPc, cConfig, cLoaded, cSeen, cJ, cNew, cPosts,
          mPc, mSubs, mI, mResults,
          digestFile, dPc, dSubs, dJ, dCutoff, dAll, docs>>

-----------------------------------------------------------------------------
(* Bounds of the model *)

MaxTime == 5          \* the clock stops here; every invocation takes a tick
MaxAlerts == 2        \* `alert add` is not invoked on a registry this long
MaxCommands == 4      \* the alert commands are not invoked more often
MaxPosts == 3         \* the post lists given to the categorizer are up to this long
MaxWords == 3         \* the short texts given to the scorer have up to this many words
MaxRuns == 2          \* notify.js, scout.js and the commands on found documents are not invoked more often
MaxMatches == 6       \* the match lists given to the formatter are up to this long
MaxMentions == 4      \* the mention lists given to the formatter are up to this long
MaxRows == 2          \* the tables given to toCSV have up to this many rows
MaxComments == 4      \* the comment trees given to extractComments have up to this many nodes

-----------------------------------------------------------------------------
(* Generic helpers *)

Range(s) == {s[i] : i \in 1..Len(s)}

\* a lookup that falls back on the first element when no element has the id
FindIndexOrFirst(s, id) ==
  IF \E i \in 1..Len(s) : s[i].id = id
  THEN CHOOSE i \in 1..Len(s) :
         s[i].id = id /\ \A j \in 1..(i - 1) : s[j].id # id
  ELSE IF Len(s) > 0 THEN 1 ELSE 0

\* s.findIndex(x => x.id === id), 0 standing for -1
FindIndex(s, id) ==
  IF \E i \in 1..Len(s) : s[i].id = id
  THEN CHOOSE i \in 1..Len(s) :
         s[i].id = id /\ \A j \in 1..(i - 1) : s[j].id # id
  ELSE 0

\* obj.field = value, on an object that may not have the field yet
SetField(obj, f, v) ==
  [x \in DOMAIN obj \cup {f} |-> IF x = f THEN v ELSE obj[x]]

Has(obj, f) == f \in DOMAIN obj

-----------------------------------------------------------------------------
(* scheduler.js: scheduled posts *)

Rand == {"k3f9a"}                 \* Math.random().toString(36).slice(2, 7)
Subreddits == {"SaaS"}
Titles == {"My Launch"}
Contents == {"Check out my app"}
Urls == {"null", "https://reddit.com/r/SaaS/1"}
Whens == {2, 5}                   \* the scheduled times a user asks for
NoId == <<0, "none">>             \* an identifier no post or alert has

\* generateId(): the clock in base 36 followed by five random characters
generateId(t, r) == <<t, r>>

NewPost(t, r, subreddit, title, content, scheduledTime) ==
  [ id            |-> generateId(t, r),
    subreddit     |-> subreddit,
    title         |-> title,
    content       |-> content,
    scheduledTime |-> scheduledTime,
    createdAt     |-> t,
    status        |-> "pending",
    flair         |-> "null",
    nsfw          |-> FALSE,
    spoiler       |-> FALSE ]

\* posts[idx].status = 'cancelled'; posts[idx].cancelledAt = now
CancelledNoStamp(p, t) == SetField(p, "status", "cancelled")
Cancelled(p, t) ==
  SetField(SetField(p, "status", "cancelled"), "cancelledAt", t)

\* posts[idx].status = 'posted'; posts[idx].postedAt = now; redditUrl if given
Posted(p, t, url) ==
  LET q == SetField(SetField(p, "status", "posted"), "postedAt", t)
  IN  IF url # "null" THEN SetField(q, "redditUrl", url) ELSE q

\* history.push(posts[idx])
HistoryKept(h, p) == h
HistoryPushed(h, p) == Append(h, p)

\* the filter of getDuePosts
IsDueStrict(p, t) == p.status = "pending" /\ p.scheduledTime < t
IsDue(p, t) == p.status = "pending" /\ p.scheduledTime <= t

getDuePosts(store, t) == SelectSeq(store, LAMBDA p : IsDue(p, t))

\* a file as loadJSON finds it: state is "json" for a document that parses,
\* "corrupt" for one that does not, "missing" for none; content is what the
\* document holds (for a corrupt one, what it held before it was damaged)
ScheduleFile == [state |-> docs.schedule, content |-> posts]
HistoryFile == [state |-> docs.history, content |-> history]

\* loadJSON(file, defaultVal)
ParsedAnyway(file, defaultVal) == file.content
loadJSON(file, defaultVal) ==
  IF file.state = "json" THEN file.content ELSE defaultVal

\* saveJSON leaves a document that parses
Written(name) == [docs EXCEPT ![name] = "json"]

Null == [kind |-> "null"]
One(v) == [kind |-> "object", value |-> v]
List(v) == [kind |-> "list", value |-> v]

Invoke(c) ==
  /\ now < MaxTime
  /\ now' = now + 1
  /\ cmd' = SetField(c, "at", now)

addScheduledPost ==
  \E r \in Rand, sub \in Subreddits, title \in Titles, content \in Contents,
     when \in Whens :
    LET post == NewPost(now, r, sub, title, content, when) IN
    /\ Invoke([op |-> "post add"])
    /\ posts' = Append(loadJSON(ScheduleFile, <<>>), post)
    /\ docs' = Written("schedule")
    /\ result' = One(post)
    /\ UNCHANGED <<history, nonPostVars>>

listScheduledPosts ==
  \E filter \in {"pending", "all"} :
    /\ Invoke([op |-> "post list", filter |-> filter])
    /\ result' = List(IF filter = "all" THEN loadJSON(ScheduleFile, <<>>)
                      ELSE SelectSeq(loadJSON(ScheduleFile, <<>>),
                                     LAMBDA p : p.status = filter))
    /\ UNCHANGED <<postVars, nonPostVars>>

KnownPostIds == {posts[i].id : i \in 1..Len(posts)} \cup {NoId}

cancelPost ==
  \E id \in KnownPostIds :
    LET stored == loadJSON(ScheduleFile, <<>>)
        idx == FindIndex(stored, id)
    IN
    /\ Invoke([op |-> "post cancel", id |-> id])
    /\ UNCHANGED nonPostVars
    /\ IF idx = 0
       THEN /\ result' = Null
            /\ UNCHANGED postVars
       ELSE /\ posts' = [stored EXCEPT ![idx] = Cancelled(@, now)]
            /\ docs' = Written("schedule")
            /\ result' = One(posts'[idx])
            /\ UNCHANGED history

duePosts ==
  /\ Invoke([op |-> "post due"])
  /\ result' = List(getDuePosts(loadJSON(ScheduleFile, <<>>), now))
  /\ UNCHANGED <<postVars, nonPostVars>>

markPosted ==
  \E id \in KnownPostIds, url \in Urls :
    LET stored == loadJSON(ScheduleFile, <<>>)
        idx == FindIndex(stored, id)
    IN
    /\ Invoke([op |-> "post mark-posted", id |-> id, url |-> url])
    /\ UNCHANGED nonPostVars
    /\ IF idx = 0
       THEN /\ result' = Null
            /\ UNCHANGED postVars
       ELSE /\ posts' = [stored EXCEPT ![idx] = Posted(@, now, url)]
            /\ history' = HistoryPushed(loadJSON(HistoryFile, <<>>), posts'[idx])
            /\ docs' = [schedule |-> "json", history |-> "json"]
            /\ result' = One(posts'[idx])

\* time passing between two invocations
Tick ==
  /\ now < MaxTime
  /\ now' = now + 1
  /\ UNCHANGED <<cmd, result, postVars, nonPostVars>>

\* allPosts, allPainPoints and allOpportunities of a digest, all empty
NoPosts == [posts |-> <<>>, painPoints |-> <<>>, opportunities |-> <<>>]

\* no invocation yet, no check cycle running
InitQuiet ==
  /\ cmd = [op |-> "none", at |-> -1]
  /\ result = Null
  /\ kPc = "idle"
  /\ kAlerts = <<>>
  /\ kI = 0
  /\ kJ = 0
  /\ kMatches = <<>>
  /\ aPc = "idle"
  /\ aAlerts = <<>>
  /\ aLoaded = <<>>
  /\ aSeen = <<>>
  /\ aI = 0
  /\ aJ = 0
  /\ aNew = <<>>
  /\ aPosts = <<>>
  /\ cPc = "idle"
  /\ cConfig = [competitors |-> <<>>, subreddits |-> <<>>]
  /\ cLoaded = <<>>
  /\ cSeen = <<>>
  /\ cJ = 0
  /\ cNew = <<>>
  /\ cPosts = <<>>
  /\ mPc = "idle"
  /\ mSubs = <<>>
  /\ mI = 0
  /\ mResults = <<>>
  /\ digestFile = Null
  /\ dPc = "idle"
  /\ dSubs = <<>>
  /\ dJ = 0
  /\ dCutoff = 0
  /\ dAll = NoPosts

\* no invocation yet, no document written yet, no check cycle running
InitIdle ==
  /\ InitQuiet
  /\ now = 0
  /\ posts = <<>>
  /\ history = <<>>
  /\ docs = [schedule |-> "missing", history |-> "missing"]

InitPosts ==
  /\ InitIdle
  /\ alerts = <<>>
  /\ seenFile = <<>>
  /\ competitorFile = [competitors |-> <<>>, subreddits |-> <<>>]
  /\ feed = [s \in {} |-> <<>>]

NextPosts ==
  \/ addScheduledPost
  \/ listScheduledPosts
  \/ cancelPost
  \/ duePosts
  \/ markPosted
  \/ Tick

SpecPosts == InitPosts /\ [][NextPosts]_vars

\* the documents earlier invocations have left, and what has become of them
OldPending == NewPost(-2, "k3f9a", "SaaS", "My Launch", "Check out my app", 2)
OldPosted ==
  Posted(NewPost(-1, "k3f9a", "SaaS", "My Launch", "Check out my app", 0),
         -1, "null")
DocStates == {"json", "corrupt", "missing"}

\* the clock leaves room for MaxRuns more invocations
InitStore ==
  /\ InitQuiet
  /\ now = MaxTime - MaxRuns
  /\ docs \in [schedule : DocStates, history : DocStates]
  /\ posts = IF docs.schedule = "missing" THEN <<>> ELSE <<OldPending, OldPosted>>
  /\ history = IF docs.history = "missing" THEN <<>> ELSE <<OldPosted>>
  /\ alerts = <<>>
  /\ seenFile = <<>>
  /\ competitorFile = [competitors |-> <<>>, subreddits |-> <<>>]
  /\ feed = [s \in {} |-> <<>>]

NextStore ==
  \/ addScheduledPost
  \/ listScheduledPosts
  \/ cancelPost
  \/ duePosts
  \/ markPosted
  \/ Tick

SpecStore == InitStore /\ [][NextStore]_vars

-----------------------------------------------------------------------------
(* Claims about the scheduled-post tracker (SpecPosts) *)

\* the step in which the invocation `op` runs
Runs(op) == cmd'.op = op /\ cmd'.at = now

C9_CancelExcludesFromDue ==
  /\ [][\A i \in 1..Len(posts) :
          (Runs("post cancel") /\ cmd'.id = posts[i].id
             /\ posts[i].status = "pending")
            => /\ posts'[i].status = "cancelled"
               /\ Has(posts'[i], "cancelledAt")
               /\ posts'[i].cancelledAt = now
       ]_vars
  /\ [](\A i \in 1..Len(posts) :
          Has(posts[i], "cancelledAt")
            => /\ \A t \in 0..MaxTime : posts[i] \notin Range(getDuePosts(posts, t))
               /\ cmd.op = "post due" => posts[i] \notin Range(result.value))

C9_Witness ==
  /\ cmd.op = "post due"
  /\ \E i \in 1..Len(posts) :
       /\ posts[i].status = "cancelled"
       /\ Has(posts[i], "cancelledAt")
       /\ posts[i].scheduledTime <= cmd.at
       /\ posts[i] \notin Range(result.value)

\* C10: the due list holds exactly the stored posts that are pending and
\* scheduled at or before the time of the call, each once and in stored order,
\* and the call changes neither the schedule store nor the history.
C10_DueNowExact ==
  /\ [](cmd.op = "post due" =>
          LET due == {i \in 1..Len(posts) :
                        posts[i].status = "pending"
                          /\ posts[i].scheduledTime <= cmd.at}
          IN  /\ result.kind = "list"
              /\ Range(result.value) = {posts[i] : i \in due}
              /\ Len(result.value) = Cardinality(due)
              /\ \A a, b \in 1..Len(result.value) :
                   a < b => \E i, j \in due :
                              i < j /\ posts[i] = result.value[a]
                                    /\ posts[j] = result.value[b])
  /\ [][Runs("post due") => posts' = posts /\ history' = history]_vars

C10_Witness ==
  /\ cmd.op = "post due"
  /\ result.value # <<>>
  /\ \E p \in Range(posts) : p.status = "cancelled" /\ p.scheduledTime <= cmd.at
  /\ \E p \in Range(posts) : p.status = "pending" /\ p.scheduledTime > cmd.at

\* C11: every post whose status in the schedule store is posted has an entry
\* with its id in the history, and the history gets an entry only in a
\* mark-posted command, for the post that command names; entries stay.
C11_PostedIsInHistory ==
  /\ [](\A i \in 1..Len(posts) :
          posts[i].status = "posted"
            => \E h \in 1..Len(history) : history[h].id = posts[i].id)
  /\ [][/\ Len(history') >= Len(history)
        /\ SubSeq(history', 1, Len(history)) = history
        /\ \A h \in (Len(history) + 1)..Len(history') :
             /\ Runs("post mark-posted")
             /\ history'[h].id = cmd'.id
             /\ history'[h].status = "posted"
       ]_vars

C11_Witness ==
  /\ cmd.op = "post mark-posted"
  /\ \E i \in 1..Len(posts) :
       /\ posts[i].status = "posted"
       /\ posts[i].id = cmd.id
       /\ history # <<>> /\ history[Len(history)] = posts[i]
  /\ \E i \in 1..Len(posts) :
       /\ posts[i].status # "posted"
       /\ \A h \in 1..Len(history) : history[h].id # posts[i].id

-----------------------------------------------------------------------------
(* Text *)

UpperCase == <<"A", "B", "C", "D", "E", "F", "G", "H", "I", "J", "K", "L", "M",
               "N", "O", "P", "Q", "R", "S", "T", "U", "V", "W", "X", "Y", "Z">>
LowerCase == <<"a", "b", "c", "d", "e", "f", "g", "h", "i", "j", "k", "l", "m",
               "n", "o", "p", "q", "r", "s", "t", "u", "v", "w", "x", "y", "z">>

\* String.prototype.toLowerCase
toLowerCase(s) ==
  [i \in 1..Len(s) |->
     IF \E k \in 1..26 : UpperCase[k] = s[i]
     THEN LowerCase[CHOOSE k \in 1..26 : UpperCase[k] = s[i]]
     ELSE s[i]]

\* String.prototype.includes
includes(text, part) ==
  \E i \in 0..(Len(text) - Len(part)) : SubSeq(text, i + 1, i + Len(part)) = part

\* String.prototype.split, on a one-character separator
RECURSIVE split(_, _)
split(s, sep) ==
  IF \E i \in 1..Len(s) : s[i] = sep
  THEN LET i == CHOOSE i \in 1..Len(s) :
                  s[i] = sep /\ \A j \in 1..(i - 1) : s[j] # sep
       IN  <<SubSeq(s, 1, i - 1)>> \o split(SubSeq(s, i + 1, Len(s)), sep)
  ELSE <<s>>

\* String.prototype.trim
RECURSIVE trim(_)
trim(s) ==
  IF s = <<>> THEN s
  ELSE IF Head(s) = " " THEN trim(Tail(s))
  ELSE IF s[Len(s)] = " " THEN trim(SubSeq(s, 1, Len(s) - 1))
  ELSE s

\* arg.split(',').map(x => x.trim())
ParseList(arg) ==
  LET parts == split(arg, ",") IN [i \in 1..Len(parts) |-> trim(parts[i])]

-----------------------------------------------------------------------------
(* The content source *)

SaaS == <<"S", "a", "a", "S">>
Startups == <<"s", "t", "a", "r", "t", "u", "p", "s">>

\* children[].data of a listing
PostCrm ==
  [ id |-> "p1", title |-> <<"C", "R", "M", " ", "h", "e", "l", "p">>,
    selftext |-> <<>>, permalink |-> "/r/SaaS/comments/p1/",
    author |-> "ann", score |-> 12, created_utc |-> 1,
    num_comments |-> 25 ]
PostHelp ==
  [ id |-> "p2", title |-> <<"H", "i">>,
    selftext |-> <<"h", "e", "l", "p", " ", "m", "e">>,
    permalink |-> "/r/SaaS/comments/p2/",
    author |-> "bob", score |-> 0, created_utc |-> 2,
    num_comments |-> 4 ]
PostAcme ==
  [ id |-> "p3", title |-> <<"A", "c", "m", "e", " ", "c", "r", "m">>,
    selftext |-> <<>>, permalink |-> "/r/startups/comments/p3/",
    author |-> "cyd", score |-> 3, created_utc |-> 3,
    num_comments |-> 0 ]

FeedOne == (SaaS :> <<PostCrm, PostHelp>>) @@ (Startups :> <<PostAcme>>)
FeedTwo == (SaaS :> <<PostCrm>>) @@ (Startups :> <<PostAcme, PostHelp>>)
Feeds == {FeedOne, FeedTwo}

\* how a request for a listing ends
Outcomes(sub) ==
  IF sub \in DOMAIN feed THEN {"ok", "not ok", "throws"} ELSE {"not ok", "throws"}

\* data?.data?.children || [] of the response
Children(sub, outcome) == IF outcome = "ok" THEN feed[sub] ELSE <<>>

\* `${p.title} ${p.selftext || ''}`
Text(p) == p.title \o <<" ">> \o p.selftext

\* keywords.filter(kw => text.includes(kw.toLowerCase())), text in lower case
MatchedKeywords(keywords, lowerText) ==
  SelectSeq(keywords, LAMBDA kw : includes(lowerText, toLowerCase(kw)))

-----------------------------------------------------------------------------
(* scheduler.js: keyword alerts *)

NullTime == -1                    \* lastChecked: null

\* args[2] and args[3] of `alert add`
AlertArgs ==
  { <<<<"c", "r", "m">>, SaaS \o <<",", " ">> \o Startups>>,
    <<<<"H", "e", "l", "p", ",", " ", "a", "c", "m", "e">>, SaaS>> }

NewAlert(t, r, keywords, subreddits) ==
  [ id          |-> generateId(t, r),
    keywords    |-> ParseList(keywords),
    subreddits  |-> ParseList(subreddits),
    createdAt   |-> t,
    enabled     |-> TRUE,
    notifyVia   |-> "console",
    lastChecked |-> NullTime,
    matchCount  |-> 0 ]

\* whether a check cycle of another process stands between its load of
\* keyword-alerts.json and its save
CycleRunning == kPc # "idle"

addKeywordAlertWhile(running) ==
  \E r \in Rand, args \in AlertArgs :
    LET alert == NewAlert(now, r, args[1], args[2]) IN
    /\ CycleRunning = running
    /\ Len(alerts) < MaxAlerts
    /\ now < MaxCommands
    /\ Invoke([op |-> "alert add"])
    /\ alerts' = Append(alerts, alert)
    /\ result' = One(alert)
    /\ UNCHANGED <<postVars, scanVars, digestVars, cycleVars, worldVars>>

addKeywordAlert == addKeywordAlertWhile(FALSE)

listAlerts ==
  \E enabledOnly \in BOOLEAN :
    /\ kPc = "idle"
    /\ now < MaxCommands
    /\ Invoke([op |-> "alert list", enabledOnly |-> enabledOnly])
    /\ result' = List(IF enabledOnly
                      THEN SelectSeq(alerts, LAMBDA a : a.enabled) ELSE alerts)
    /\ UNCHANGED <<postVars, scanVars, digestVars, alerts, cycleVars, worldVars>>

KnownAlertIds == {alerts[i].id : i \in 1..Len(alerts)} \cup {NoId}

toggleAlertWhile(running) ==
  \E id \in KnownAlertIds, enabled \in BOOLEAN :
    LET idx == FindIndex(alerts, id) IN
    /\ CycleRunning = running
    /\ now < MaxCommands
    /\ Invoke([op |-> IF enabled THEN "alert enable" ELSE "alert disable",
               id |-> id])
    /\ IF idx = 0
       THEN /\ result' = Null
            /\ UNCHANGED alerts
       ELSE /\ alerts' = [alerts EXCEPT ![idx].enabled = enabled]
            /\ result' = One(alerts'[idx])
    /\ UNCHANGED <<postVars, scanVars, digestVars, cycleVars, worldVars>>

toggleAlert == toggleAlertWhile(FALSE)

removeAlertWhile(running) ==
  \E id \in KnownAlertIds :
    LET filtered == SelectSeq(alerts, LAMBDA a : a.id # id) IN
    /\ CycleRunning = running
    /\ now < MaxCommands
    /\ Invoke([op |-> "alert remove", id |-> id])
    /\ alerts' = filtered
    /\ result' = One(Len(filtered) < Len(alerts))
    /\ UNCHANGED <<postVars, scanVars, digestVars, cycleVars, worldVars>>

removeAlert == removeAlertWhile(FALSE)

-----------------------------------------------------------------------------
(* scheduler.js: the check cycle *)

\* the cycle that would loop over every alert of the file
Everything(all) == all

\* alerts.filter(a => a.enabled)
Enabled(all) == SelectSeq(all, LAMBDA a : a.enabled)

\* the match records one listing adds for one alert
MatchesOf(alert, subreddit, children) ==
  LET hits == SelectSeq(children, LAMBDA p :
                MatchedKeywords(alert.keywords, toLowerCase(Text(p))) # <<>>)
  IN  [i \in 1..Len(hits) |->
        [ alertId   |-> alert.id,
          keywords  |-> MatchedKeywords(alert.keywords, toLowerCase(Text(hits[i]))),
          subreddit |-> subreddit,
          post      |-> [ id      |-> hits[i].id,
                          title   |-> hits[i].title,
                          url     |-> "https://reddit.com" \o hits[i].permalink,
                          author  |-> hits[i].author,
                          created |-> hits[i].created_utc * 1000,
                          score   |-> hits[i].score ] ]]

\* alerts[idx].matchCount += n
CountedAssign(count, n) == n
Counted(count, n) == count + n

\* the update after an alert's subreddits: lastChecked and matchCount
Checked(all, id, t, matches) ==
  LET idx == FindIndex(all, id)
      n == Len(SelectSeq(matches, LAMBDA m : m.alertId = id))
  IN  IF idx = 0 THEN all
      ELSE [all EXCEPT ![idx].lastChecked = t,
                       ![idx].matchCount = Counted(@, n)]

\* saveJSON(ALERTS_FILE, alerts)
SavedEnabledOnly(all) == Enabled(all)
Saved(all) == all

CheckResult(all, matches) ==
  [kind |-> "check", checked |-> Len(Enabled(all)), matches |-> matches]

\* `alert check` up to its first request
checkStart ==
  /\ kPc = "idle"
  /\ now < MaxCommands
  /\ Invoke([op |-> "alert check"])
  /\ kAlerts' = alerts
  /\ kMatches' = <<>>
  /\ IF Enabled(alerts) = <<>>
     THEN /\ result' = [kind |-> "check", checked |-> 0, matches |-> <<>>]
          /\ UNCHANGED <<kPc, kI, kJ>>
     ELSE /\ kPc' = "fetch"
          /\ kI' = 1
          /\ kJ' = 1
          /\ UNCHANGED result
  /\ UNCHANGED <<postVars, scanVars, digestVars, alerts, worldVars>>

\* the end of one pass of the inner loop, with the matches gathered so far
LoopOn(matches) ==
  LET alert == Enabled(kAlerts)[kI] IN
  /\ kMatches' = matches
  /\ IF kJ < Len(alert.subreddits)
     THEN /\ kJ' = kJ + 1
          /\ kPc' = "fetch"
          /\ UNCHANGED <<kI, kAlerts, alerts, result>>
     ELSE /\ kAlerts' = Checked(kAlerts, alert.id, now, matches)
          /\ IF kI < Len(Enabled(kAlerts))
             THEN /\ kI' = kI + 1
                  /\ kJ' = 1
                  /\ kPc' = "fetch"
                  /\ UNCHANGED <<alerts, result>>
             ELSE /\ alerts' = Saved(kAlerts')
                  /\ result' = CheckResult(kAlerts, matches)
                  /\ kPc' = "idle"
                  /\ UNCHANGED <<kI, kJ>>

\* the response to the request for alert.subreddits[kJ] arrives
checkFetched ==
  /\ kPc = "fetch"
  /\ LET alert == Enabled(kAlerts)[kI]
         subreddit == alert.subreddits[kJ]
     IN  \E outcome \in Outcomes(subreddit) :
           IF outcome = "ok"
           THEN /\ kMatches' = kMatches
                      \o MatchesOf(alert, subreddit, Children(subreddit, outcome))
                /\ kPc' = "delay"
                /\ UNCHANGED <<kI, kJ, kAlerts, alerts, result>>
           ELSE LoopOn(kMatches)
  /\ UNCHANGED <<now, cmd, postVars, scanVars, digestVars, worldVars>>

\* the 500 ms after a listing has been read are over
checkDelayed ==
  /\ kPc = "delay"
  /\ LoopOn(kMatches)
  /\ UNCHANGED <<now, cmd, postVars, scanVars, digestVars, worldVars>>

InitAlerts ==
  /\ InitIdle
  /\ alerts = <<>>
  /\ seenFile \in {<<>>, <<"p1">>}
  /\ competitorFile = [competitors |-> <<>>, subreddits |-> <<>>]
  /\ feed \in Feeds

NextAlerts ==
  \/ addKeywordAlert
  \/ listAlerts
  \/ toggleAlert
  \/ removeAlert
  \/ checkStart
  \/ checkFetched
  \/ checkDelayed
  \/ Tick

SpecAlerts == InitAlerts /\ [][NextAlerts]_vars

\* the alert commands of a second process, invoked while a check cycle waits
\* for a listing or for its delay
addKeywordAlertMeanwhile == addKeywordAlertWhile(TRUE)
toggleAlertMeanwhile == toggleAlertWhile(TRUE)
removeAlertMeanwhile == removeAlertWhile(TRUE)

\* a registry of one alert, written by an earlier `alert add`
InitOverlap ==
  /\ InitIdle
  /\ alerts = <<NewAlert(-1, "k3f9a", <<"c", "r", "m">>, SaaS)>>
  /\ seenFile = <<>>
  /\ competitorFile = [competitors |-> <<>>, subreddits |-> <<>>]
  /\ feed \in Feeds

NextOverlap ==
  \/ checkStart
  \/ checkFetched
  \/ checkDelayed
  \/ addKeywordAlertMeanwhile
  \/ toggleAlertMeanwhile
  \/ removeAlertMeanwhile

SpecOverlap == InitOverlap /\ [][NextOverlap]_vars

-----------------------------------------------------------------------------
(* Claims about the alert registry and its check cycle (SpecAlerts) *)

\* the matches of `matches` that are new to a SeenSet holding `seen`: the post
\* is not in it and no earlier match of the cycle has put it there
NewTo(matches, seen) ==
  {k \in 1..Len(matches) :
     /\ matches[k].post.id \notin seen
     /\ \A l \in 1..(k - 1) : matches[l].post.id # matches[k].post.id}

\* C6: when a cycle has processed an enabled alert's communities, the alert's
\* lastChecked is the current time and its matchCount has grown by exactly
\* the number of its matches that are new to the SeenSet; and a cycle that
\* finds what the cycle before it found adds nothing to any matchCount.
C6_CountsNewMatchesOnly ==
  [][kPc # "idle" =>
       /\ \A i \in 1..Len(kAlerts) :
            (kAlerts[i].id = Enabled(kAlerts)[kI].id
               /\ (kI' # kI \/ kPc' = "idle"))
              => /\ kAlerts'[i].lastChecked = now
                 /\ kAlerts'[i].matchCount =
                      kAlerts[i].matchCount
                        + Cardinality({k \in NewTo(kMatches', Range(seenFile)) :
                                         kMatches'[k].alertId = kAlerts[i].id})
       /\ (kPc' = "idle" /\ result.kind = "check"
             /\ result.matches = result'.matches)
            => \A i \in 1..Len(alerts) :
                 alerts'[i].matchCount = alerts[i].matchCount
    ]_vars

\* C7: across add, enable, disable and check cycles every alert of the
\* registry stays in it with its id, keywords and communities; an alert
\* leaves the registry only in a remove command given its id.
C7_NeverImplicitlyDeleted ==
  [][\A i \in 1..Len(alerts) :
       \/ \E j \in 1..Len(alerts') :
            /\ alerts'[j].id = alerts[i].id
            /\ alerts'[j].keywords = alerts[i].keywords
            /\ alerts'[j].subreddits = alerts[i].subreddits
       \/ Runs("alert remove") /\ cmd'.id = alerts[i].id
    ]_vars

C7_Witness ==
  /\ cmd.op = "alert check"
  /\ kPc = "idle"
  /\ \E a \in Range(alerts) : ~a.enabled
  /\ \E a \in Range(alerts) : a.lastChecked # NullTime /\ a.matchCount > 0

\* C8: matchCount is 0 in a new alert, is never negative, and the matchCount
\* of an alert that stays in the registry never decreases.
C8_MatchCountMonotonic ==
  /\ [](\A i \in 1..Len(alerts) : alerts[i].matchCount >= 0)
  /\ [][\A j \in 1..Len(alerts') :
          IF \E i \in 1..Len(alerts) : alerts[i].id = alerts'[j].id
          THEN \A i \in 1..Len(alerts) :
                 alerts[i].id = alerts'[j].id
                   => alerts'[j].matchCount >= alerts[i].matchCount
          ELSE alerts'[j].matchCount = 0
       ]_vars

C8_Witness ==
  /\ cmd.op = "alert check"
  /\ kPc = "idle"
  /\ result.kind = "check"
  /\ \E a \in Range(alerts) :
       a.matchCount
         > Len(SelectSeq(result.matches, LAMBDA m : m.alertId = a.id))

-----------------------------------------------------------------------------
(* notify.js: the SeenSet *)

KeepLast == 1000                  \* [...seen].slice(-1000)

\* new Set(array): the elements in order of first occurrence
RECURSIVE Distinct(_)
Distinct(array) ==
  IF array = <<>> THEN <<>>
  ELSE LET front == Distinct(SubSeq(array, 1, Len(array) - 1))
           last == array[Len(array)]
       IN  IF last \in Range(front) THEN front ELSE Append(front, last)
SetFrom(array) ==
  IF Cardinality(Range(array)) = Len(array) THEN array ELSE Distinct(array)

\* seen.has(key)
SetHas(set, key) == key \in Range(set)

\* the set left as it is
SetKept(set, key) == set

\* seen.add(key): a key the set holds keeps its place
SetAdd(set, key) == IF key \in Range(set) THEN set ELSE Append(set, key)

\* array.slice(-n)
LastN(array, n) ==
  SubSeq(array, IF Len(array) > n THEN Len(array) - n + 1 ELSE 1, Len(array))

\* title.slice(0, n)
Slice(s, n) == SubSeq(s, 1, IF Len(s) > n THEN n ELSE Len(s))

\* `${p.id}` and `comp:${p.id}`
AlertKey(id) == id
CompKeyBare(id) == id
CompKey(id) == "comp:" \o id

PostUrl(p) == "https://reddit.com" \o p.permalink

\* the keys earlier runs have left in the file: identifiers of older posts
Digits == <<"0", "1", "2", "3", "4", "5", "6", "7", "8", "9">>
RECURSIVE Decimal(_)
Decimal(n) ==
  IF n < 10 THEN Digits[n + 1] ELSE Decimal(n \div 10) \o Digits[(n % 10) + 1]
OldKeys(n) == [i \in 1..n |-> "x" \o Decimal(i)]

SeenFiles == {<<>>, OldKeys(KeepLast - 1)}

-----------------------------------------------------------------------------
(* notify.js: checkAlerts *)

Acme == <<"A", "c", "m", "e">>
Crm == <<"C", "R", "M">>

\* registries that scheduler.js has written
AlertOne == NewAlert(-2, "k3f9a", <<"c", "r", "m">>, SaaS \o <<",", " ">> \o Startups)
AlertTwo == NewAlert(-1, "k3f9a", <<"H", "e", "l", "p", ",", " ", "a", "c", "m", "e">>, SaaS)
AlertFiles ==
  { <<>>, <<[AlertTwo EXCEPT !.enabled = FALSE], AlertOne>>,
    <<AlertOne, AlertTwo>> }

CompetitorFiles ==
  { [competitors |-> <<>>, subreddits |-> <<>>],
    [competitors |-> <<Acme, Crm>>, subreddits |-> <<SaaS, Startups>>] }

\* the loop over the posts of one listing (notify.js:104-133); acc holds
\* seen and newMatches
RECURSIVE ScanForAlert(_, _, _, _)
ScanForAlert(alert, subreddit, children, acc) ==
  IF children = <<>> THEN acc
  ELSE LET p == Head(children)
           postKey == AlertKey(p.id)
           text == Text(p)
           matchedKeywords == MatchedKeywords(alert.keywords, toLowerCase(text))
           next ==
             IF SetHas(acc.seen, postKey) THEN acc
             ELSE IF matchedKeywords # <<>>
             THEN [ seen |-> SetAdd(acc.seen, postKey),
                    out  |-> Append(acc.out,
                               [ subreddit |-> subreddit,
                                 keywords  |-> matchedKeywords,
                                 title     |-> Slice(p.title, 100),
                                 url       |-> PostUrl(p),
                                 author    |-> p.author,
                                 score     |-> p.score ]) ]
             ELSE acc
       IN  ScanForAlert(alert, subreddit, Tail(children), next)

\* the end of one pass of the inner loop of checkAlerts
ALoopOn ==
  IF aJ < Len(aAlerts[aI].subreddits)
  THEN /\ aJ' = aJ + 1
       /\ aPc' = "fetch"
       /\ UNCHANGED <<aI, seenFile>>
  ELSE IF aI < Len(aAlerts)
  THEN /\ aI' = aI + 1
       /\ aJ' = 1
       /\ aPc' = "fetch"
       /\ UNCHANGED seenFile
  ELSE /\ seenFile' = LastN(aSeen', KeepLast)
       /\ aPc' = "done"
       /\ UNCHANGED <<aI, aJ>>

\* the response to the request for alert.subreddits[aJ] arrives
alertsFetched ==
  /\ aPc = "fetch"
  /\ LET alert == aAlerts[aI]
         subreddit == alert.subreddits[aJ]
     IN  \E outcome \in Outcomes(subreddit) :
           /\ IF outcome = "throws"
              THEN /\ UNCHANGED <<aSeen, aNew, aPosts>>
                   /\ ALoopOn
              ELSE LET acc == ScanForAlert(alert, subreddit,
                                           Children(subreddit, outcome),
                                           [seen |-> aSeen, out |-> aNew])
                   IN  /\ aPosts' = Children(subreddit, outcome)
                       /\ aSeen' = acc.seen
                       /\ aNew' = acc.out
                       /\ aPc' = "delay"
                       /\ UNCHANGED <<aI, aJ, seenFile>>
  /\ UNCHANGED <<now, cmd, result, postVars, scanVars, digestVars, alerts, cycleVars, feed,
                 competitorFile, aAlerts, aLoaded, cVars>>

\* the 300 ms after a listing has been read are over
alertsDelayed ==
  /\ aPc = "delay"
  /\ UNCHANGED <<aSeen, aNew, aPosts>>
  /\ ALoopOn
  /\ UNCHANGED <<now, cmd, result, postVars, scanVars, digestVars, alerts, cycleVars, feed,
                 competitorFile, aAlerts, aLoaded, cVars>>

-----------------------------------------------------------------------------
(* notify.js: checkCompetitors *)

\* the loop over the posts of one listing (notify.js:163-189)
RECURSIVE ScanForCompetitors(_, _, _, _)
ScanForCompetitors(competitors, subreddit, children, acc) ==
  IF children = <<>> THEN acc
  ELSE LET p == Head(children)
           postKey == CompKey(p.id)
           text == toLowerCase(Text(p))
           matchedCompetitors == MatchedKeywords(competitors, text)
           next ==
             IF SetHas(acc.seen, postKey) THEN acc
             ELSE IF matchedCompetitors # <<>>
             THEN [ seen |-> SetAdd(acc.seen, postKey),
                    out  |-> Append(acc.out,
                               [ subreddit   |-> subreddit,
                                 competitors |-> matchedCompetitors,
                                 title       |-> Slice(p.title, 100),
                                 url         |-> PostUrl(p),
                                 author      |-> p.author,
                                 score       |-> p.score ]) ]
             ELSE acc
       IN  ScanForCompetitors(competitors, subreddit, Tail(children), next)

\* the end of one pass of the loop of checkCompetitors
CLoopOn ==
  IF cJ < Len(cConfig.subreddits)
  THEN /\ cJ' = cJ + 1
       /\ cPc' = "fetch"
       /\ UNCHANGED seenFile
  ELSE /\ seenFile' = LastN(cSeen', KeepLast)
       /\ cPc' = "done"
       /\ UNCHANGED cJ

competitorsFetched ==
  /\ cPc = "fetch"
  /\ LET subreddit == cConfig.subreddits[cJ]
     IN  \E outcome \in Outcomes(subreddit) :
           /\ IF outcome = "throws"
              THEN /\ UNCHANGED <<cSeen, cNew, cPosts>>
                   /\ CLoopOn
              ELSE LET acc == ScanForCompetitors(cConfig.competitors, subreddit,
                                                 Children(subreddit, outcome),
                                                 [seen |-> cSeen, out |-> cNew])
                   IN  /\ cPosts' = Children(subreddit, outcome)
                       /\ cSeen' = acc.seen
                       /\ cNew' = acc.out
                       /\ cPc' = "delay"
                       /\ UNCHANGED <<cJ, seenFile>>
  /\ UNCHANGED <<now, cmd, result, postVars, scanVars, digestVars, alerts, cycleVars, feed,
                 competitorFile, cConfig, cLoaded, aVars>>

competitorsDelayed ==
  /\ cPc = "delay"
  /\ UNCHANGED <<cSeen, cNew, cPosts>>
  /\ CLoopOn
  /\ UNCHANGED <<now, cmd, result, postVars, scanVars, digestVars, alerts, cycleVars, feed,
                 competitorFile, cConfig, cLoaded, aVars>>

-----------------------------------------------------------------------------
(* notify.js: main *)

\* checkAlerts() up to its first request; `file` is the SeenSet file it finds
AlertsCalled(file) ==
  LET enabled == Enabled(alerts) IN
  /\ aAlerts' = enabled
  /\ aLoaded' = file
  /\ aSeen' = SetFrom(file)
  /\ aNew' = <<>>
  /\ aPosts' = <<>>
  /\ IF enabled = <<>>
     THEN aPc' = "done" /\ aI' = 0 /\ aJ' = 0
     ELSE aPc' = "fetch" /\ aI' = 1 /\ aJ' = 1

\* the file checkAlerts() leaves behind when it returns before any request
AfterAlertsCalled(file) ==
  IF Enabled(alerts) = <<>> THEN LastN(SetFrom(file), KeepLast) ELSE file

\* checkCompetitors() up to its first request
CompetitorsCalled(file) ==
  /\ cConfig' = competitorFile
  /\ cNew' = <<>>
  /\ cPosts' = <<>>
  /\ IF competitorFile.competitors = <<>> \/ competitorFile.subreddits = <<>>
     THEN /\ cPc' = "done"
          /\ cLoaded' = <<>>
          /\ cSeen' = <<>>
          /\ cJ' = 0
     ELSE /\ cPc' = "fetch"
          /\ cLoaded' = file
          /\ cSeen' = SetFrom(file)
          /\ cJ' = 1

\* node notify.js: Promise.all([checkAlerts(), checkCompetitors()])
notifyStart ==
  /\ aPc = "idle" /\ cPc = "idle"
  /\ now < MaxRuns
  /\ Invoke([op |-> "notify"])
  /\ AlertsCalled(seenFile)
  /\ CompetitorsCalled(AfterAlertsCalled(seenFile))
  /\ seenFile' = AfterAlertsCalled(seenFile)
  /\ UNCHANGED <<result, postVars, scanVars, digestVars, alerts, cycleVars, feed, competitorFile>>

\* node notify.js competitors
notifyCompetitorsStart ==
  /\ aPc = "idle" /\ cPc = "idle"
  /\ now < MaxRuns
  /\ Invoke([op |-> "notify competitors"])
  /\ CompetitorsCalled(seenFile)
  /\ aPc' = "off"
  /\ UNCHANGED <<aAlerts, aLoaded, aSeen, aI, aJ, aNew, aPosts>>
  /\ UNCHANGED <<result, postVars, scanVars, digestVars, alerts, cycleVars, feed, competitorFile,
                 seenFile>>

\* both promises are settled: the output is printed and the process ends
notifyDone ==
  /\ aPc \in {"done", "off"} /\ cPc = "done"
  /\ result' = [ kind |-> "notify",
                 matches |-> IF aPc = "off" THEN <<>> ELSE aNew,
                 competitorMentions |-> cNew ]
  /\ aPc' = "idle" /\ cPc' = "idle"
  /\ aAlerts' = <<>> /\ aLoaded' = <<>> /\ aSeen' = <<>> /\ aNew' = <<>>
  /\ aPosts' = <<>> /\ aI' = 0 /\ aJ' = 0
  /\ cConfig' = [competitors |-> <<>>, subreddits |-> <<>>]
  /\ cLoaded' = <<>> /\ cSeen' = <<>> /\ cNew' = <<>> /\ cPosts' = <<>> /\ cJ' = 0
  /\ UNCHANGED <<now, cmd, postVars, scanVars, digestVars, alerts, cycleVars, feed, competitorFile,
                 seenFile>>

InitNotify ==
  /\ InitIdle
  /\ alerts \in AlertFiles
  /\ seenFile \in SeenFiles
  /\ competitorFile \in CompetitorFiles
  /\ feed = FeedOne

NextNotify ==
  \/ notifyStart
  \/ notifyCompetitorsStart
  \/ alertsFetched
  \/ alertsDelayed
  \/ competitorsFetched
  \/ competitorsDelayed
  \/ notifyDone

SpecNotify == InitNotify /\ [][NextNotify]_vars

-----------------------------------------------------------------------------
(* Claims about the notify cycle and the SeenSet (SpecNotify) *)

AllPosts == UNION {Range(feed[s]) : s \in DOMAIN feed}

\* the post a match record or a mention is about
PostOf(m) == CHOOSE p \in AllPosts : PostUrl(p) = m.url

\* the keys `added` holds beyond the first n
Beyond(added, n) == {added[i] : i \in (n + 1)..Len(added)}

\* C1: a post for which a cycle has emitted a match record (the cycle has
\* inserted its identifier and made its final save) gets no match record in
\* the cycle after it. `result` still holds the output of the cycle before;
\* fewer than 1000 keys are inserted in between, so the cap evicts none of
\* the identifiers in question.
C1_SeenNotEmittedAgain ==
  result.kind = "notify" =>
    \A k \in 1..Len(aNew) :
      \A l \in 1..Len(result.matches) : aNew[k].url # result.matches[l].url

\* C2: in the default path, when both tasks have finished, the SeenSet file
\* holds every key either task has added (as far as the cap allows).
C2_NoLostSeenKeys ==
  (cmd.op = "notify" /\ aPc = "done" /\ cPc = "done") =>
    LET added == Beyond(aSeen, Len(aLoaded)) \cup Beyond(cSeen, Len(cLoaded))
    IN  Cardinality(Range(aLoaded) \cup added) <= KeepLast
          => added \subseteq Range(seenFile)

\* C4: a flush leaves at most 1000 keys in the file; the keys it drops are
\* the oldest of the file, and it drops any only when the file is full
\* afterwards; and while a task runs no key of its set changes position.
C4_SeenBoundAndEviction ==
  [][/\ seenFile' # seenFile =>
          /\ Len(seenFile') <= KeepLast
          /\ \E n \in 0..Len(seenFile) :
               /\ Len(seenFile') >= Len(seenFile) - n
               /\ SubSeq(seenFile', 1, Len(seenFile) - n)
                    = SubSeq(seenFile, n + 1, Len(seenFile))
               /\ n > 0 => Len(seenFile') = KeepLast
     /\ aPc \in {"fetch", "delay"}
          => Len(aSeen') >= Len(aSeen) /\ SubSeq(aSeen', 1, Len(aSeen)) = aSeen
     /\ cPc \in {"fetch", "delay"}
          => Len(cSeen') >= Len(cSeen) /\ SubSeq(cSeen', 1, Len(cSeen)) = cSeen
    ]_vars

\* what a task owes once it has read a listing: every post of it that matches
\* and whose key (in the task's own namespace) was not loaded has its record
AlertsOwed ==
    \A p \in Range(aPosts) :
      (MatchedKeywords(aAlerts[aI].keywords, toLowerCase(Text(p))) # <<>>
         /\ AlertKey(p.id) \notin Range(aLoaded))
        => \E k \in 1..Len(aNew) : aNew[k].url = PostUrl(p)
CompetitorsOwed ==
    \A p \in Range(cPosts) :
      (MatchedKeywords(cConfig.competitors, toLowerCase(Text(p))) # <<>>
         /\ CompKey(p.id) \notin Range(cLoaded))
        => \E k \in 1..Len(cNew) : cNew[k].url = PostUrl(p)

\* C5: the keyword path inserts no key of the competitor namespace and the
\* competitor path no bare post identifier, so a mark of one path never
\* suppresses the other path's record of the same post.
C5_NamespacesDisjoint ==
  /\ [][/\ aPc = "fetch"
            => Beyond(aSeen', Len(aSeen)) \cap {CompKey(p.id) : p \in AllPosts} = {}
        /\ cPc = "fetch"
            => Beyond(cSeen', Len(cSeen)) \cap {AlertKey(p.id) : p \in AllPosts} = {}
       ]_vars
  /\ [](aPc = "delay" => AlertsOwed)
  /\ [](cPc = "delay" => CompetitorsOwed)

C5_Witness ==
  /\ aPc = "delay"
  /\ \E k \in 1..Len(aNew) : CompKey(PostOf(aNew[k]).id) \in Range(aLoaded)

-----------------------------------------------------------------------------
(* scout.js: the sentiment scorer *)

\* scout.js:69-74
POSITIVE_WORDS ==
  << <<"l", "o", "v", "e">>,
     <<"a", "m", "a", "z", "i", "n", "g">>,
     <<"g", "r", "e", "a", "t">>,
     <<"a", "w", "e", "s", "o", "m", "e">>,
     <<"e", "x", "c", "e", "l", "l", "e", "n", "t">>,
     <<"f", "a", "n", "t", "a", "s", "t", "i", "c">>,
     <<"p", "e", "r", "f", "e", "c", "t">>,
     <<"b", "e", "s", "t">>,
     <<"w", "o", "n", "d", "e", "r", "f", "u", "l">>,
     <<"i", "n", "c", "r", "e", "d", "i", "b", "l", "e">>,
     <<"b", "r", "i", "l", "l", "i", "a", "n", "t">>,
     <<"o", "u", "t", "s", "t", "a", "n", "d", "i", "n", "g">>,
     <<"h", "a", "p", "p", "y">>,
     <<"s", "a", "t", "i", "s", "f", "i", "e", "d">>,
     <<"i", "m", "p", "r", "e", "s", "s", "e", "d">>,
     <<"r", "e", "c", "o", "m", "m", "e", "n", "d">>,
     <<"t", "h", "a", "n", "k">>,
     <<"t", "h", "a", "n", "k", "s">>,
     <<"h", "e", "l", "p", "f", "u", "l">>,
     <<"u", "s", "e", "f", "u", "l">>,
     <<"s", "o", "l", "v", "e", "d">>,
     <<"w", "o", "r", "k", "s", " ", "g", "r", "e", "a", "t">>,
     <<"g", "a", "m", "e", " ", "c", "h", "a", "n", "g", "e", "r">>,
     <<"l", "i", "f", "e", " ", "s", "a", "v", "e", "r">> >>

\* scout.js:76-81
NEGATIVE_WORDS ==
  << <<"h", "a", "t", "e">>,
     <<"t", "e", "r", "r", "i", "b", "l", "e">>,
     <<"a", "w", "f", "u", "l">>,
     <<"h", "o", "r", "r", "i", "b", "l", "e">>,
     <<"w", "o", "r", "s", "t">>,
     <<"b", "a", "d">>,
     <<"p", "o", "o", "r">>,
     <<"d", "i", "s", "a", "p", "p", "o", "i", "n", "t", "e", "d">>,
     <<"f", "r", "u", "s", "t", "r", "a", "t">>,
     <<"a", "n", "n", "o", "y", "e", "d">>,
     <<"a", "n", "g", "r", "y">>,
     <<"u", "s", "e", "l", "e", "s", "s">>,
     <<"b", "r", "o", "k", "e", "n">>,
     <<"b", "u", "g">>,
     <<"i", "s", "s", "u", "e">>,
     <<"p", "r", "o", "b", "l", "e", "m">>,
     <<"f", "a", "i", "l">>,
     <<"c", "r", "a", "s", "h">>,
     <<"s", "l", "o", "w">>,
     <<"e", "x", "p", "e", "n", "s", "i", "v", "e">>,
     <<"s", "c", "a", "m">>,
     <<"w", "a", "s", "t", "e">>,
     <<"r", "e", "g", "r", "e", "t">>,
     <<"a", "v", "o", "i", "d">>,
     <<"s", "u", "c", "k", "s">>,
     <<"r", "i", "d", "i", "c", "u", "l", "o", "u", "s">> >>

\* scout.js:83
NEGATION_WORDS ==
  << <<"n", "o", "t">>,
     <<"d", "o", "n", "'", "t">>,
     <<"d", "o", "e", "s", "n", "'", "t">>,
     <<"d", "i", "d", "n", "'", "t">>,
     <<"w", "o", "n", "'", "t">>,
     <<"c", "a", "n", "'", "t">>,
     <<"n", "e", "v", "e", "r">>,
     <<"n", "o">> >>

\* \w of a regular expression, and \s as far as the texts of the model go
WordChars == Range(LowerCase) \cup Range(UpperCase) \cup Range(Digits) \cup {"_"}
WhiteSpace == {" ", "\n", "\t"}

\* lowerText.split(/\s+/): a text that starts or ends with white space gets
\* an empty first or last word
RECURSIVE SplitWords(_)
SplitWords(s) ==
  IF \E i \in 1..Len(s) : s[i] \in WhiteSpace
  THEN LET i == CHOOSE i \in 1..Len(s) :
                  s[i] \in WhiteSpace /\ \A j \in 1..(i - 1) : s[j] \notin WhiteSpace
           rest == {j \in (i + 1)..Len(s) : s[j] \notin WhiteSpace}
           j == IF rest = {} THEN Len(s) + 1
                ELSE CHOOSE j \in rest : \A k \in rest : j <= k
       IN  <<SubSeq(s, 1, i - 1)>> \o SplitWords(SubSeq(s, j, Len(s)))
  ELSE <<s>>

\* (lowerText.match(new RegExp(`\\b${word}`, 'gi')) || []).length: every word
\* of the lexicons starts with a \w character, so \b holds before it exactly
\* at the start of the text and after a character that is not \w; two matches
\* of one word cannot overlap, so the global match finds all of them
MatchCount(lowerText, word) ==
  Cardinality({i \in 1..(Len(lowerText) - Len(word) + 1) :
                 /\ i = 1 \/ lowerText[i - 1] \notin WordChars
                 /\ SubSeq(lowerText, i, i + Len(word) - 1) = word})

\* the two loops over a lexicon (scout.js:92-104)
RECURSIVE HitsFrom(_, _, _)
HitsFrom(lowerText, lexicon, k) ==
  IF k > Len(lexicon) THEN 0
  ELSE MatchCount(lowerText, lexicon[k]) + HitsFrom(lowerText, lexicon, k + 1)
Hits(lowerText, lexicon) == HitsFrom(lowerText, lexicon, 1)

\* the positions i of the negation loop (scout.js:106-120) at which words[i]
\* is a negation and words[i + 1] contains a word of the lexicon
Flips(words, lexicon) ==
  {i \in 1..(Len(words) - 1) :
     /\ words[i] \in Range(NEGATION_WORDS)
     /\ \E k \in 1..Len(lexicon) : includes(words[i + 1], lexicon[k])}

\* Math.round(100 * num / den) for den > 0: the nearest integer, a half
\* going up
Round100(num, den) == (200 * num + den) \div (2 * den)

\* analyzeSentiment(text); compound is given in hundredths
analyzeSentiment(text) ==
  LET lowerText == toLowerCase(text)
      words == SplitWords(lowerText)
      flipsOfPositive == Cardinality(Flips(words, POSITIVE_WORDS))
      flipsOfNegative == Cardinality(Flips(words, NEGATIVE_WORDS))
      positiveScore == Hits(lowerText, POSITIVE_WORDS)
                         - flipsOfPositive + flipsOfNegative
      negativeScore == Hits(lowerText, NEGATIVE_WORDS)
                         + flipsOfPositive - flipsOfNegative
      total == positiveScore + negativeScore
  IN  [ label    |-> IF total > 0 /\ 5 * (positiveScore - negativeScore) >= total
                     THEN "positive"
                     ELSE IF total > 0
                               /\ 5 * (positiveScore - negativeScore) <= -total
                     THEN "negative"
                     ELSE "neutral",
        compound |-> IF total > 0
                     THEN Round100(positiveScore - negativeScore, total)
                     ELSE 0,
        positive |-> positiveScore,
        negative |-> negativeScore ]

\* the words the texts of the model are made of
Vocabulary ==
  { <<"L", "o", "v", "e">>, <<"t", "h", "a", "n", "k", "s">>, <<"b", "a", "d">>, <<"n", "o", "t">>,
    <<"n", "o">>, <<"u", "n", "h", "a", "p", "p", "y">>, <<"d", "e", "b", "u", "g", "g", "i", "n", "g">>, <<"i", "t">> }

\* words.join(' ')
RECURSIVE Join(_)
Join(words) ==
  IF words = <<>> THEN <<>>
  ELSE IF Len(words) = 1 THEN words[1]
  ELSE words[1] \o <<" ">> \o Join(Tail(words))

RECURSIVE Repeat(_, _)
Repeat(words, k) == IF k = 0 THEN <<>> ELSE words \o Repeat(words, k - 1)

\* the texts of up to MaxWords words, and two long ones
ShortTexts ==
  {Join(ws) : ws \in UNION {[1..n -> Vocabulary] : n \in 0..MaxWords}}
LongTexts ==
  { Repeat(<<"l", "o", "v", "e", " ">>, 49) \o Repeat(<<"b", "a", "d", " ">>, 33),
    Repeat(<<"b", "a", "d", " ">>, 49) \o Repeat(<<"g", "r", "e", "a", "t", " ">>, 33) }
Texts == ShortTexts \cup LongTexts

\* the scorer applied to one text, in a process that does nothing else
scoreText ==
  \E text \in Texts :
    /\ cmd.op = "none"
    /\ cmd' = [op |-> "sentiment", text |-> text, at |-> now]
    /\ result' = analyzeSentiment(text)
    /\ UNCHANGED <<now, postVars, nonPostVars>>

-----------------------------------------------------------------------------
(* scout.js: the pain-point categorizer *)

\* scout.js:13-54, the entries in the order of Object.entries
PAIN_SIGNALS ==
  << [ category |-> "helpSeeking",
       signals |->
         << <<"l", "o", "o", "k", "i", "n", "g", " ", "f", "o", "r">>,
            <<"n", "e", "e", "d", " ", "h", "e", "l", "p">>,
            <<"a", "n", "y", "o", "n", "e", " ", "k", "n", "o", "w">>,
            <<"c", "a", "n", " ", "s", "o", "m", "e", "o", "n", "e">>,
            <<"h", "o", "w", " ", "d", "o", " ", "i">>,
            <<"h", "o", "w", " ", "c", "a", "n", " ", "i">>,
            <<"i", "s", " ", "t", "h", "e", "r", "e", " ", "a">>,
            <<"d", "o", "e", "s", " ", "a", "n", "y", "o", "n", "e">>,
            <<"p", "l", "e", "a", "s", "e", " ", "h", "e", "l", "p">>,
            <<"s", "t", "u", "c", "k", " ", "o", "n">>,
            <<"c", "a", "n", "t", " ", "f", "i", "g", "u", "r", "e", " ", "o", "u", "t">>,
            <<"c", "a", "n", "'", "t", " ", "f", "i", "g", "u", "r", "e", " ", "o", "u", "t">>,
            <<"a", "n", "y", " ", "a", "d", "v", "i", "c", "e">>,
            <<"s", "u", "g", "g", "e", "s", "t", "i", "o", "n", "s", " ", "f", "o", "r">>,
            <<"t", "i", "p", "s", " ", "f", "o", "r">>,
            <<"h", "e", "l", "p", " ", "m", "e">> >> ],
     [ category |-> "frustration",
       signals |->
         << <<"f", "r", "u", "s", "t", "r", "a", "t", "e", "d">>,
            <<"h", "a", "t", "e", " ", "w", "h", "e", "n">>,
            <<"w", "i", "s", "h", " ", "t", "h", "e", "r", "e", " ", "w", "a", "s">>,
            <<"s", "t", "r", "u", "g", "g", "l", "i", "n", "g", " ", "w", "i", "t", "h">>,
            <<"a", "n", "n", "o", "y", "e", "d", " ", "b", "y">>,
            <<"s", "i", "c", "k", " ", "o", "f">>,
            <<"t", "i", "r", "e", "d", " ", "o", "f">>,
            <<"f", "e", "d", " ", "u", "p", " ", "w", "i", "t", "h">>,
            <<"d", "r", "i", "v", "e", "s", " ", "m", "e", " ", "c", "r", "a", "z", "y">>,
            <<"p", "a", "i", "n", " ", "p", "o", "i", "n", "t">>,
            <<"n", "i", "g", "h", "t", "m", "a", "r", "e">>,
            <<"w", "o", "r", "s", "t", " ", "p", "a", "r", "t">> >> ],
     [ category |-> "alternatives",
       signals |->
         << <<"r", "e", "c", "o", "m", "m", "e", "n", "d">>,
            <<"a", "l", "t", "e", "r", "n", "a", "t", "i", "v", "e", " ", "t", "o">>,
            <<"b", "e", "t", "t", "e", "r", " ", "t", "h", "a", "n">>,
            <<"i", "n", "s", "t", "e", "a", "d", " ", "o", "f">>,
            <<"s", "w", "i", "t", "c", "h", "i", "n", "g", " ", "f", "r", "o", "m">>,
            <<"m", "o", "v", "e", "d", " ", "a", "w", "a", "y", " ", "f", "r", "o", "m">>,
            <<"r", "e", "p", "l", "a", "c", "e", "m", "e", "n", "t", " ", "f", "o", "r">>,
            <<"s", "i", "m", "i", "l", "a", "r", " ", "t", "o">>,
            <<"l", "i", "k", "e", " ", "X", " ", "b", "u", "t">>,
            <<"c", "o", "m", "p", "a", "r", "a", "b", "l", "e", " ", "t", "o">>,
            <<"c", "o", "m", "p", "e", "t", "i", "t", "o", "r", " ", "t", "o">> >> ],
     [ category |-> "hiring",
       signals |->
         << <<"h", "i", "r", "i", "n", "g">>,
            <<"f", "o", "r", " ", "h", "i", "r", "e">>,
            <<"j", "o", "b">>,
            <<"l", "o", "o", "k", "i", "n", "g", " ", "t", "o", " ", "h", "i", "r", "e">>,
            <<"n", "e", "e", "d", " ", "a", " ", "d", "e", "v", "e", "l", "o", "p", "e", "r">>,
            <<"n", "e", "e", "d", " ", "a", " ", "d", "e", "s", "i", "g", "n", "e", "r">>,
            <<"l", "o", "o", "k", "i", "n", "g", " ", "f", "o", "r", " ", "f", "r", "e", "e", "l", "a", "n", "c", "e", "r">>,
            <<"c", "o", "n", "t", "r", "a", "c", "t", " ", "w", "o", "r", "k">>,
            <<"r", "e", "m", "o", "t", "e", " ", "p", "o", "s", "i", "t", "i", "o", "n">>,
            <<"o", "p", "e", "n", " ", "p", "o", "s", "i", "t", "i", "o", "n">> >> ],
     [ category |-> "pricing",
       signals |->
         << <<"t", "o", "o", " ", "e", "x", "p", "e", "n", "s", "i", "v", "e">>,
            <<"o", "v", "e", "r", "p", "r", "i", "c", "e", "d">>,
            <<"p", "r", "i", "c", "e", " ", "i", "n", "c", "r", "e", "a", "s", "e">>,
            <<"p", "r", "i", "c", "i", "n", "g", " ", "i", "s">>,
            <<"c", "o", "s", "t", " ", "t", "o", "o", " ", "m", "u", "c", "h">>,
            <<"c", "h", "e", "a", "p", "e", "r", " ", "a", "l", "t", "e", "r", "n", "a", "t", "i", "v", "e">>,
            <<"f", "r", "e", "e", " ", "a", "l", "t", "e", "r", "n", "a", "t", "i", "v", "e">>,
            <<"n", "o", "t", " ", "w", "o", "r", "t", "h", " ", "t", "h", "e", " ", "p", "r", "i", "c", "e">>,
            <<"b", "u", "d", "g", "e", "t", " ", "f", "r", "i", "e", "n", "d", "l", "y">>,
            <<"a", "f", "f", "o", "r", "d", "a", "b", "l", "e", " ", "o", "p", "t", "i", "o", "n">>,
            <<"s", "u", "b", "s", "c", "r", "i", "p", "t", "i", "o", "n", " ", "f", "a", "t", "i", "g", "u", "e">>,
            <<"p", "r", "i", "c", "e", " ", "h", "i", "k", "e">>,
            <<"r", "a", "i", "s", "e", "d", " ", "p", "r", "i", "c", "e", "s">> >> ],
     [ category |-> "featureRequests",
       signals |->
         << <<"w", "i", "s", "h", " ", "i", "t", " ", "h", "a", "d">>,
            <<"f", "e", "a", "t", "u", "r", "e", " ", "r", "e", "q", "u", "e", "s", "t">>,
            <<"w", "o", "u", "l", "d", " ", "b", "e", " ", "n", "i", "c", "e", " ", "i", "f">>,
            <<"m", "i", "s", "s", "i", "n", "g", " ", "f", "e", "a", "t", "u", "r", "e">>,
            <<"n", "e", "e", "d", "s", " ", "t", "o", " ", "a", "d", "d">>,
            <<"s", "h", "o", "u", "l", "d", " ", "h", "a", "v", "e">>,
            <<"h", "o", "p", "e", " ", "t", "h", "e", "y", " ", "a", "d", "d">>,
            <<"w", "h", "y", " ", "c", "a", "n", "t">>,
            <<"w", "h", "y", " ", "c", "a", "n", "'", "t">>,
            <<"f", "e", "a", "t", "u", "r", "e", " ", "s", "u", "g", "g", "e", "s", "t", "i", "o", "n">>,
            <<"r", "o", "a", "d", "m", "a", "p">>,
            <<"p", "l", "a", "n", "n", "e", "d", " ", "f", "e", "a", "t", "u", "r", "e">>,
            <<"c", "o", "m", "i", "n", "g", " ", "s", "o", "o", "n">> >> ],
     [ category |-> "comparison",
       signals |->
         << <<"v", "s">>,
            <<"v", "e", "r", "s", "u", "s">>,
            <<"c", "o", "m", "p", "a", "r", "e", "d", " ", "t", "o">>,
            <<"c", "o", "m", "p", "a", "r", "i", "s", "o", "n">>,
            <<"w", "h", "i", "c", "h", " ", "i", "s", " ", "b", "e", "t", "t", "e", "r">>,
            <<"s", "h", "o", "u", "l", "d", " ", "i", " ", "u", "s", "e">>,
            <<"s", "h", "o", "u", "l", "d", " ", "i", " ", "c", "h", "o", "o", "s", "e">>,
            <<"o", "r", " ", "s", "h", "o", "u", "l", "d", " ", "i">>,
            <<"d", "e", "c", "i", "d", "i", "n", "g", " ", "b", "e", "t", "w", "e", "e", "n">>,
            <<"p", "r", "o", "s", " ", "a", "n", "d", " ", "c", "o", "n", "s">>,
            <<"w", "h", "i", "c", "h", " ", "o", "n", "e">>,
            <<"d", "i", "f", "f", "e", "r", "e", "n", "c", "e", "s", " ", "b", "e", "t", "w", "e", "e", "n">> >> ] >>

\* Object.values(PAIN_SIGNALS).flat()
RECURSIVE Flat(_)
Flat(lists) == IF lists = <<>> THEN <<>> ELSE Head(lists) \o Flat(Tail(lists))
ALL_PAIN_SIGNALS == Flat([k \in 1..Len(PAIN_SIGNALS) |-> PAIN_SIGNALS[k].signals])

\* `${p.title} ${p.selftext}`.toLowerCase()
RawTextOf(p) == p.title \o <<" ">> \o p.selftext
LowerTextOf(p) == toLowerCase(p.title \o <<" ">> \o p.selftext)

\* the categories object: a key for every category with a matched signal
FirstCategoryOf(lowerText) ==
  LET matched(k) == SelectSeq(PAIN_SIGNALS[k].signals,
                              LAMBDA s : includes(lowerText, s))
      keys == {k \in 1..Len(PAIN_SIGNALS) : matched(k) # <<>>}
      first == CHOOSE k \in keys : \A j \in keys : k <= j
  IN  IF keys = {} THEN <<>>
      ELSE [c \in {PAIN_SIGNALS[first].category} |-> matched(first)]
CategoriesOf(lowerText) ==
  LET matched(k) == SelectSeq(PAIN_SIGNALS[k].signals,
                              LAMBDA s : includes(lowerText, s))
      keys == {k \in 1..Len(PAIN_SIGNALS) : matched(k) # <<>>}
  IN  [c \in {PAIN_SIGNALS[k].category : k \in keys} |->
         matched(CHOOSE k \in keys : PAIN_SIGNALS[k].category = c)]

\* detectPainPoints(posts, includeSentiment)
detectPainPoints(list, includeSentiment) ==
  LET kept == SelectSeq(list, LAMBDA p :
                \E k \in 1..Len(ALL_PAIN_SIGNALS) :
                  includes(LowerTextOf(p), ALL_PAIN_SIGNALS[k]))
  IN  [i \in 1..Len(kept) |->
         LET p == kept[i]
             lowerText == LowerTextOf(p)
             found == [ signals    |-> SelectSeq(ALL_PAIN_SIGNALS,
                                         LAMBDA s : includes(lowerText, s)),
                        categories |-> CategoriesOf(lowerText) ]
         IN  IF includeSentiment
             THEN [sentiment |-> analyzeSentiment(p.title \o <<" ">> \o p.selftext)]
                    @@ found @@ p
             ELSE found @@ p]

\* posts as extractPosts returns them (the fields the categorizer reads)
PostNeedHelp ==
  [ id |-> "s1", title |-> <<"N", "e", "e", "d", " ", "h", "e", "l", "p">>,
    selftext |-> <<"A", "n", "y", "o", "n", "e", " ", "k", "n", "o", "w", " ", "a", " ", "t", "o", "o", "l", "?">>,
    score |-> 10, numComments |-> 5 ]
PostVersus ==
  [ id |-> "s2", title |-> <<"N", "o", "t", "i", "o", "n", " ", "V", "S", " ", "O", "b", "s", "i", "d", "i", "a", "n">>,
    selftext |-> <<>>,
    score |-> 60, numComments |-> 2 ]
PostLikeX ==
  [ id |-> "s3", title |-> <<"l", "i", "k", "e", " ", "X", " ", "b", "u", "t", " ", "f", "r", "e", "e">>,
    selftext |-> <<>>,
    score |-> 3, numComments |-> 25 ]
PostCanvas ==
  [ id |-> "s4", title |-> <<"M", "y", " ", "c", "a", "n", "v", "a", "s">>,
    selftext |-> <<"C", "h", "e", "a", "p", "e", "r", " ", "a", "l", "t", "e", "r",
                   "n", "a", "t", "i", "v", "e", " ", "t", "o", " ", "i", "t">>,
    score |-> 3, numComments |-> 20 ]
PostBought ==
  [ id |-> "s5", title |-> <<"I", " ", "b", "o", "u", "g", "h", "t", " ", "i", "t">>,
    selftext |-> <<"y", "e", "s", "t", "e", "r", "d", "a", "y">>,
    score |-> 7, numComments |-> 1 ]
ScoutPosts == {PostNeedHelp, PostVersus, PostLikeX, PostCanvas, PostBought}

\* the lists of up to MaxPosts posts
PostLists == UNION {[1..n -> ScoutPosts] : n \in 0..MaxPosts}

\* the categorizer applied to one list, in a process that does nothing else
categorize ==
  \E list \in PostLists, includeSentiment \in BOOLEAN :
    /\ cmd.op = "none"
    /\ cmd' = [op |-> "pain points", posts |-> list,
               includeSentiment |-> includeSentiment, at |-> now]
    /\ result' = List(detectPainPoints(list, includeSentiment))
    /\ UNCHANGED <<now, postVars, nonPostVars>>

\* list.sort((a, b) => b.score - a.score): by score, highest first, posts of
\* equal score in the order they had (Array.prototype.sort is stable)
RECURSIVE InsertBeforeEqual(_, _)
InsertBeforeEqual(sorted, p) ==
  IF sorted = <<>> THEN <<p>>
  ELSE IF Head(sorted).score > p.score
  THEN <<Head(sorted)>> \o InsertBeforeEqual(Tail(sorted), p)
  ELSE <<p>> \o sorted
RECURSIVE InsertByScore(_, _)
InsertByScore(sorted, p) ==
  IF sorted = <<>> THEN <<p>>
  ELSE IF Head(sorted).score >= p.score
  THEN <<Head(sorted)>> \o InsertByScore(Tail(sorted), p)
  ELSE <<p>> \o sorted
\* the list left in the order it was built in
Unsorted(list) == list
RECURSIVE SortFrom(_, _, _)
SortFrom(list, k, sorted) ==
  IF k > Len(list) THEN sorted
  ELSE SortFrom(list, k + 1, InsertByScore(sorted, list[k]))
SortByScore(list) == SortFrom(list, 1, <<>>)

\* p.score >= threshold || p.numComments >= 20
TrendsOnBoth(p, threshold) == p.score >= threshold /\ p.numComments >= 20
Trends(p, threshold) == p.score >= threshold \/ p.numComments >= 20

\* findTrending(posts, threshold = 50); rest holds the arguments after posts
findTrending(list, rest) ==
  LET threshold == IF rest = <<>> THEN 50 ELSE rest[1]
  IN  SortByScore(SelectSeq(list, LAMBDA p : Trends(p, threshold)))

\* the thresholds findTrending is called with: none, and three numbers
ThresholdArgs == {<<>>, <<3>>, <<60>>, <<100>>}

\* findTrending applied to one list, in a process that does nothing else;
\* posts.filter returns a new array, and that array is the one sort reorders
trending ==
  \E list \in PostLists, rest \in ThresholdArgs :
    /\ cmd.op = "none"
    /\ cmd' = [op |-> "trending", posts |-> list, rest |-> rest, at |-> now]
    /\ result' = [kind |-> "trending", value |-> findTrending(list, rest),
                  posts |-> list]
    /\ UNCHANGED <<now, postVars, nonPostVars>>

InitAnalysis ==
  /\ InitIdle
  /\ alerts = <<>>
  /\ seenFile = <<>>
  /\ competitorFile = [competitors |-> <<>>, subreddits |-> <<>>]
  /\ feed = [s \in {} |-> <<>>]

NextAnalysis ==
  \/ scoreText
  \/ categorize
  \/ trending

SpecAnalysis == InitAnalysis /\ [][NextAnalysis]_vars

-----------------------------------------------------------------------------
(* scout.js: scanSubreddit and multiScan *)

\* scout.js:60-65
OPPORTUNITY_SIGNALS ==
  << <<"h", "i", "r", "i", "n", "g">>,
     <<"l", "o", "o", "k", "i", "n", "g", " ", "t", "o", " ", "h", "i", "r", "e">>,
     <<"n", "e", "e", "d", " ", "a", " ", "d", "e", "v", "e", "l", "o", "p", "e", "r">>,
     <<"n", "e", "e", "d", " ", "a", " ", "d", "e", "s", "i", "g", "n", "e", "r">>,
     <<"l", "o", "o", "k", "i", "n", "g", " ", "f", "o", "r", " ", "f", "r", "e", "e", "l", "a", "n", "c", "e", "r">>,
     <<"p", "a", "i", "d", " ", "g", "i", "g">>,
     <<"c", "o", "n", "t", "r", "a", "c", "t", " ", "w", "o", "r", "k">>,
     <<"r", "e", "m", "o", "t", "e", " ", "p", "o", "s", "i", "t", "i", "o", "n">>,
     <<"w", "i", "l", "l", " ", "p", "a", "y">>,
     <<"b", "u", "d", "g", "e", "t", " ", "i", "s">>,
     <<"p", "a", "y", "i", "n", "g">>,
     <<"c", "o", "m", "p", "e", "n", "s", "a", "t", "e", "d">>,
     <<"l", "o", "o", "k", "i", "n", "g", " ", "f", "o", "r", " ", "a", " ", "t", "o", "o", "l">>,
     <<"n", "e", "e", "d", " ", "a", " ", "s", "o", "l", "u", "t", "i", "o", "n">>,
     <<"o", "p", "e", "n", " ", "t", "o", " ", "s", "u", "g", "g", "e", "s", "t", "i", "o", "n", "s">> >>

\* extractPosts(data) for the listing of one subreddit
extractPosts(children) ==
  LET t3 == SelectSeq(children, LAMBDA c : c.kind = "t3")
  IN  [i \in 1..Len(t3) |->
         [ id          |-> t3[i].data.id,
           title       |-> t3[i].data.title,
           selftext    |-> Slice(t3[i].data.selftext, 500),
           score       |-> t3[i].data.score,
           numComments |-> t3[i].data.num_comments,
           author      |-> t3[i].data.author,
           created     |-> t3[i].data.created_utc,
           createdUtc  |-> t3[i].data.created_utc,
           url         |-> PostUrl(t3[i].data),
           flair       |-> "null" ]]

\* detectOpportunities(posts)
detectOpportunities(list) ==
  LET found(p) == SelectSeq(OPPORTUNITY_SIGNALS,
                            LAMBDA s : includes(LowerTextOf(p), s))
      kept == SelectSeq(list, LAMBDA p : found(p) # <<>>)
  IN  [i \in 1..Len(kept) |-> [signals |-> found(kept[i])] @@ kept[i]]

\* the body of a 200 response for /r/<sub>/<sort>/.json
Listing(sub) ==
  [i \in 1..Len(feed[sub]) |-> [kind |-> "t3", data |-> feed[sub][i]]]

\* what scanSubreddit(subreddit, options) resolves to
scanSubreddit(sub, t) ==
  LET list == extractPosts(Listing(sub))
  IN  [ subreddit     |-> sub,
        scannedAt     |-> t,
        total         |-> Len(list),
        posts         |-> list,
        painPoints    |-> detectPainPoints(list, TRUE),
        opportunities |-> detectOpportunities(list),
        trending      |-> findTrending(list, <<>>) ]

\* e.message of what scanSubreddit rejects with
ErrorOf(outcome) ==
  IF outcome = "not ok" THEN "Reddit API error: 500" ELSE "fetch failed"

\* results.push({ subreddit: sub, error: e.message })
Unmarked(sub, outcome) == [subreddit |-> sub]
ErrorMarker(sub, outcome) == [subreddit |-> sub, error |-> ErrorOf(outcome)]

\* results.flatMap(r => (r[field] || []).map(p => ({ ...p, subreddit })))
RECURSIVE Tagged(_, _)
Tagged(results, field) ==
  IF results = <<>> THEN <<>>
  ELSE LET r == Head(results)
           items == IF Has(r, field) THEN r[field] ELSE <<>>
       IN  [i \in 1..Len(items) |-> SetField(items[i], "subreddit", r.subreddit)]
             \o Tagged(Tail(results), field)

\* what multiScan returns (scout.js:336-363)
Aggregated(subs, results, t) ==
  LET allPainPoints == Tagged(results, "painPoints")
      labelled(l) == Len(SelectSeq(allPainPoints, LAMBDA p :
                           Has(p, "sentiment") /\ p.sentiment.label = l))
  IN  [ kind       |-> "scan",
        scannedAt  |-> t,
        subreddits |-> subs,
        results    |-> results,
        aggregated |->
          [ painPoints    |-> Slice(SortByScore(allPainPoints), 20),
            opportunities |-> Slice(SortByScore(Tagged(results, "opportunities")), 20),
            trending      |-> Slice(SortByScore(Tagged(results, "trending")), 20),
            sentimentSummary |-> [ positive |-> labelled("positive"),
                                   negative |-> labelled("negative"),
                                   neutral  |-> labelled("neutral") ] ] ]

\* args[1] of `multi`
ScanArgs ==
  { SaaS,
    Startups \o <<",", " ">> \o SaaS,
    SaaS \o <<",">> \o Startups \o <<",">> \o SaaS }

\* node scout.js multi <subs>: up to the first request
multiScanStart ==
  \E arg \in ScanArgs :
    /\ mPc = "idle"
    /\ now < MaxRuns
    /\ Invoke([op |-> "multi", subreddits |-> arg])
    /\ mSubs' = ParseList(arg)
    /\ mI' = 1
    /\ mResults' = <<>>
    /\ mPc' = "fetch"
    /\ UNCHANGED <<result, postVars, alerts, cycleVars, worldVars, digestVars>>

\* the loop that would ask once more after the first request that failed
MLoopRetrying ==
  IF Has(mResults'[Len(mResults')], "error") /\ Len(mResults') = mI
  THEN /\ mPc' = "fetch"
       /\ UNCHANGED <<mI, result>>
  ELSE IF mI < Len(mSubs)
  THEN /\ mI' = mI + 1
       /\ mPc' = "fetch"
       /\ UNCHANGED result
  ELSE /\ result' = Aggregated(mSubs, mResults', now)
       /\ mPc' = "idle"
       /\ UNCHANGED mI

\* the end of one pass of the loop of multiScan
MLoopOn ==
  IF mI < Len(mSubs)
  THEN /\ mI' = mI + 1
       /\ mPc' = "fetch"
       /\ UNCHANGED result
  ELSE /\ result' = Aggregated(mSubs, mResults', now)
       /\ mPc' = "idle"
       /\ UNCHANGED mI

\* the request for subs[mI] is answered, or fails
multiScanFetched ==
  /\ mPc = "fetch"
  /\ \E outcome \in Outcomes(mSubs[mI]) :
       IF outcome = "ok"
       THEN /\ mResults' = Append(mResults, scanSubreddit(mSubs[mI], now))
            /\ mPc' = "delay"
            /\ UNCHANGED <<mI, result>>
       ELSE /\ mResults' = Append(mResults, ErrorMarker(mSubs[mI], outcome))
            /\ MLoopOn
  /\ UNCHANGED <<now, cmd, mSubs, postVars, alerts, cycleVars, worldVars,
                 digestVars>>

\* the 500 ms after a scan are over
multiScanDelayed ==
  /\ mPc = "delay"
  /\ UNCHANGED mResults
  /\ MLoopOn
  /\ UNCHANGED <<now, cmd, mSubs, postVars, alerts, cycleVars, worldVars,
                 digestVars>>

\* a busy day: more posts in the two listings together than an aggregate list
\* keeps, every one of them trending, most of them a pain point and an
\* opportunity, with scores that repeat within and across the listings
BusyPost(tag, i, score) ==
  [ id |-> tag \o Decimal(i),
    title |-> IF i % 7 = 0 THEN <<"H", "i">>
              ELSE <<"H", "i", "r", "i", "n", "g", ",", " ",
                     "n", "e", "e", "d", " ", "h", "e", "l", "p">>,
    selftext |-> <<>>, permalink |-> "/r/" \o tag \o "/comments/" \o Decimal(i) \o "/",
    author |-> "dee", score |-> score, created_utc |-> 1,
    num_comments |-> 25 ]
FeedBusy ==
  (SaaS :> [i \in 1..12 |-> BusyPost("a", i, 10 + ((i * 3) % 8))])
    @@ (Startups :> [i \in 1..11 |-> BusyPost("b", i, 12 + ((i * 5) % 7))])
ScanFeeds == Feeds \cup {FeedBusy}

InitScan ==
  /\ InitIdle
  /\ alerts = <<>>
  /\ seenFile = <<>>
  /\ competitorFile = [competitors |-> <<>>, subreddits |-> <<>>]
  /\ feed \in ScanFeeds

NextScan ==
  \/ multiScanStart
  \/ multiScanFetched
  \/ multiScanDelayed

SpecScan == InitScan /\ [][NextScan]_vars

\* what a step of multiScanFetched does to mPc and mI: the scan waits for the
\* delay, turns to the community listed next, or has ended
RequestSettled ==
  /\ mPc = "fetch"
  /\ mPc' \in {"fetch", "delay", "idle"}
  /\ mI' \in {mI, mI + 1}

\* what a step of multiScanDelayed does to mPc and mI: the scan turns to the
\* community listed next, or has ended
DelayOver ==
  /\ mPc = "delay"
  /\ mPc' \in {"fetch", "idle"}
  /\ mI' \in {mI, mI + 1}

\* a request of fetchReddit is answered or fails in the end (await fetch
\* resolves or rejects), and the timer of the 500 ms delay fires. Every step
\* of multiScanFetched changes mPc or mI and is enabled whenever mPc = "fetch",
\* so weak fairness of RequestSettled on <<mPc, mI>> is weak fairness of
\* multiScanFetched; likewise DelayOver for multiScanDelayed.
SpecScanFair ==
  /\ InitScan /\ [][NextScan]_vars
  /\ WF_<<mPc, mI>>(RequestSettled) /\ WF_<<mPc, mI>>(DelayOver)

-----------------------------------------------------------------------------
(* Claims about the sentiment scorer (SpecAnalysis) *)

\* C16: the label of a result is the one its compound stands for: positive
\* exactly from 0.2 up, negative exactly from -0.2 down, neutral between.
C16_LabelFollowsCompound ==
  cmd.op = "sentiment" =>
    /\ result.label = "positive" <=> result.compound >= 20
    /\ result.label = "negative" <=> result.compound <= -20
    /\ result.label = "neutral" <=> (-20 < result.compound /\ result.compound < 20)

\* C17: compound lies in [-1, 1] and both hit counts are at least 0.
C17_ResultWellFormed ==
  cmd.op = "sentiment" =>
    /\ -100 <= result.compound /\ result.compound <= 100
    /\ result.positive >= 0
    /\ result.negative >= 0

\* C18: a text with at least one hit of the positive lexicon and none of the
\* negative lexicon, in which no negation stands before a positive word, is
\* scored positive with compound 1.
C18_OnlyPositiveIsPositive ==
  cmd.op = "sentiment" =>
    LET lowerText == toLowerCase(cmd.text) IN
    (/\ Hits(lowerText, POSITIVE_WORDS) > 0
     /\ Hits(lowerText, NEGATIVE_WORDS) = 0
     /\ Flips(SplitWords(lowerText), POSITIVE_WORDS) = {})
      => result.label = "positive" /\ result.compound = 100

\* C19: the empty text, and every text without a hit of either lexicon, is
\* scored neutral with compound 0 and no positive and no negative hit.
C19_NoLexiconWordIsNeutral ==
  cmd.op = "sentiment" =>
    LET lowerText == toLowerCase(cmd.text) IN
    (Hits(lowerText, POSITIVE_WORDS) = 0 /\ Hits(lowerText, NEGATIVE_WORDS) = 0)
      => result = [label |-> "neutral", compound |-> 0,
                   positive |-> 0, negative |-> 0]

-----------------------------------------------------------------------------
(* Claims about the categorizer (SpecAnalysis) *)

\* the text of p in lower case holds a phrase of the catalog
HoldsPhrase(p) ==
  \E k \in 1..Len(PAIN_SIGNALS) :
    \E s \in Range(PAIN_SIGNALS[k].signals) :
      includes(toLowerCase(p.title \o <<" ">> \o p.selftext), s)

\* C20: the categorizer returns, in input order, exactly the posts whose
\* title and body, joined and put in lower case, contain a catalog phrase.
C20_KeptIffPhrase ==
  cmd.op = "pain points" =>
    LET kept == SelectSeq(cmd.posts, HoldsPhrase)
    IN  /\ Len(result.value) = Len(kept)
        /\ \A i \in 1..Len(kept) :
             /\ result.value[i].id = kept[i].id
             /\ result.value[i].title = kept[i].title
             /\ result.value[i].selftext = kept[i].selftext

C20_Witness ==
  /\ cmd.op = "pain points"
  /\ Len(cmd.posts) = 3
  /\ cmd.posts[1] = PostVersus /\ cmd.posts[2] = PostBought
  /\ cmd.posts[3] = PostNeedHelp
  /\ Len(result.value) = 2
  /\ result.value[1].id = PostVersus.id /\ result.value[2].id = PostNeedHelp.id

-----------------------------------------------------------------------------
(* Claims about the multi-community scan (SpecScan) *)

\* C12: a request that fails leaves an error marker for its community in the
\* results, the scan goes on with the community listed next, and after the
\* last community it returns a result with an entry (a scan or an error
\* marker) for every listed community.
C12_FailureDoesNotAbort ==
  /\ [][mPc = "fetch" =>
          /\ Len(mResults') = Len(mResults) + 1
          /\ SubSeq(mResults', 1, Len(mResults)) = mResults
          /\ mResults'[Len(mResults')].subreddit = mSubs[mI]
          /\ \/ Has(mResults'[Len(mResults')], "error")
             \/ Has(mResults'[Len(mResults')], "posts")
          /\ Has(mResults'[Len(mResults')], "error") =>
               IF mI < Len(mSubs)
               THEN mPc' = "fetch" /\ mI' = mI + 1
               ELSE mPc' = "idle" /\ result'.kind = "scan"
                      /\ result'.results = mResults'
       ]_vars
  /\ []((cmd.op = "multi" /\ mPc = "idle") =>
          /\ result.kind = "scan"
          /\ Len(result.results) = Len(mSubs)
          /\ \A i \in 1..Len(mSubs) : result.results[i].subreddit = mSubs[i])

C12_Witness ==
  /\ cmd.op = "multi" /\ mPc = "idle"
  /\ Len(result.results) = 3
  /\ Has(result.results[1], "posts")
  /\ Has(result.results[2], "error")
  /\ Has(result.results[3], "posts") /\ result.results[3].total > 0

\* C13: between two consecutive requests of a scan the delay is executed:
\* no request follows the answer (or failure) of the one before it at once.
C13_DelayBetweenRequests ==
  [][~(mPc = "fetch" /\ mPc' = "fetch" /\ mI' # mI)]_vars

-----------------------------------------------------------------------------
(* Claims about what a check cycle persists (SpecNotify) *)

\* C14: while one of the two tasks of a check cycle is still going through
\* its communities, the persisted SeenSet and the persisted alert set are not
\* written: the only write comes after all communities have been processed.
C14_SavedOnlyAtTheEnd ==
  [][  (\/ aPc \in {"fetch", "delay"} /\ aPc' \in {"fetch", "delay"}
        \/ cPc \in {"fetch", "delay"} /\ cPc' \in {"fetch", "delay"})
       => (seenFile' = seenFile /\ alerts' = alerts)
    ]_vars

-----------------------------------------------------------------------------
(* notify.js: generateDigest; scout.js: generateDailyDigest *)

\* 24 * 60 * 60 * 1000 ms, in ticks of `now`
Day == 2

\* --hours of `scout.js digest`, in ticks: 12 hours, and the default of 24
HoursArgs == {1, Day}

\* analyzeSentiment of notify.js: one point per lexicon entry the text holds
analyzeSentimentOfNotify(text) ==
  LET lowerText == toLowerCase(text)
      held(lexicon) ==
        Cardinality({k \in 1..Len(lexicon) : includes(lowerText, lexicon[k])})
      positiveScore == held(POSITIVE_WORDS)
      negativeScore == held(NEGATIVE_WORDS)
      total == positiveScore + negativeScore
  IN  [ label    |-> IF total > 0 /\ 5 * (positiveScore - negativeScore) >= total
                     THEN "positive"
                     ELSE IF total > 0
                               /\ 5 * (positiveScore - negativeScore) <= -total
                     THEN "negative"
                     ELSE "neutral",
        compound |-> IF total > 0
                     THEN Round100(positiveScore - negativeScore, total)
                     ELSE 0 ]

\* p.created_utc * 1000 >= cutoff
UnseenInWindow(p, cutoff) ==
  p.created_utc >= cutoff /\ p.id \notin Range(seenFile)
InWindow(p, cutoff) == p.created_utc >= cutoff

\* what generateDigest pushes for the posts of one listing
DigestEntries(sub, children, cutoff) ==
  LET recent == SelectSeq(children, LAMBDA p : InWindow(p, cutoff))
  IN  [i \in 1..Len(recent) |->
         [ subreddit   |-> sub,
           title       |-> recent[i].title,
           url         |-> PostUrl(recent[i]),
           author      |-> recent[i].author,
           score       |-> recent[i].score,
           numComments |-> recent[i].num_comments,
           sentiment   |-> analyzeSentimentOfNotify(Text(recent[i])) ]]

\* list.map(p => ({ ...p, subreddit: sub }))
WithSubreddit(list, sub) ==
  [i \in 1..Len(list) |-> SetField(list[i], "subreddit", sub)]

\* how many entries of a list carry the sentiment label l
Labelled(list, l) ==
  Len(SelectSeq(list, LAMBDA p : Has(p, "sentiment") /\ p.sentiment.label = l))

\* the digest generateDigest builds after its loop (notify.js:273-291)
DigestOf(subreddits, allPosts, t) ==
  [ generatedAt |-> t,
    period      |-> "Last 24 hours",
    subreddits  |-> subreddits,
    stats       |-> [ totalPosts |-> Len(allPosts),
                      sentiment  |-> [ positive |-> Labelled(allPosts, "positive"),
                                       negative |-> Labelled(allPosts, "negative"),
                                       neutral  |-> Labelled(allPosts, "neutral") ] ],
    topPosts    |-> Slice(SortByScore(allPosts), 5) ]

\* sort((a, b) => (b.score + b.numComments * 2) - (a.score + a.numComments * 2))
Engagement(p) == p.score + p.numComments * 2
RECURSIVE InsertByEngagement(_, _)
InsertByEngagement(sorted, p) ==
  IF sorted = <<>> THEN <<p>>
  ELSE IF Engagement(Head(sorted)) >= Engagement(p)
  THEN <<Head(sorted)>> \o InsertByEngagement(Tail(sorted), p)
  ELSE <<p>> \o sorted
RECURSIVE SortByEngagementFrom(_, _, _)
SortByEngagementFrom(list, k, sorted) ==
  IF k > Len(list) THEN sorted
  ELSE SortByEngagementFrom(list, k + 1, InsertByEngagement(sorted, list[k]))
SortByEngagement(list) == SortByEngagementFrom(list, 1, <<>>)

\* reduce((sum, p) => sum + p.score, 0)
RECURSIVE TotalScore(_)
TotalScore(list) ==
  IF list = <<>> THEN 0 ELSE Head(list).score + TotalScore(Tail(list))

\* the digest generateDailyDigest returns (scout.js:483-532)
DailyDigestOf(subs, hours, all, t) ==
  LET of(list, sub) == SelectSeq(list, LAMBDA p : p.subreddit = sub)
      categories == UNION {DOMAIN all.painPoints[i].categories :
                             i \in 1..Len(all.painPoints)}
  IN  [ kind        |-> "daily digest",
        generatedAt |-> t,
        period      |-> hours,
        subreddits  |-> subs,
        summary     |->
          [ totalPosts         |-> Len(all.posts),
            totalPainPoints    |-> Len(all.painPoints),
            totalOpportunities |-> Len(all.opportunities),
            sentimentOverview  |->
              [ positive |-> Labelled(all.painPoints, "positive"),
                negative |-> Labelled(all.painPoints, "negative"),
                neutral  |-> Labelled(all.painPoints, "neutral") ],
            categoryBreakdown  |->
              [c \in categories |->
                 Len(SelectSeq(all.painPoints,
                               LAMBDA p : c \in DOMAIN p.categories))] ],
        subredditStats |->
          [sub \in Range(subs) |->
             LET subPosts == of(all.posts, sub)
                 n == IF subPosts = <<>> THEN 1 ELSE Len(subPosts)
             IN  [ posts         |-> Len(subPosts),
                   totalScore    |-> TotalScore(subPosts),
                   avgScore      |-> (2 * TotalScore(subPosts) + n) \div (2 * n),
                   painPoints    |-> Len(of(all.painPoints, sub)),
                   opportunities |-> Len(of(all.opportunities, sub)) ]],
        highlights |->
          [ topPosts         |-> Slice(SortByEngagement(all.posts), 10),
            topPainPoints    |-> Slice(SortByScore(all.painPoints), 10),
            topOpportunities |-> Slice(SortByScore(all.opportunities), 5) ] ]

\* node notify.js digest: generateDigest up to its first request
digestStart ==
  LET enabled == Enabled(alerts)
      subreddits == SetFrom(Flat([i \in 1..Len(enabled) |-> enabled[i].subreddits]))
  IN  /\ dPc = "idle"
      /\ now < MaxRuns
      /\ Invoke([op |-> "notify digest"])
      /\ IF subreddits = <<>>
         THEN /\ result' = [kind |-> "digest", raw |-> Null]
              /\ UNCHANGED digestVars
         ELSE /\ dSubs' = subreddits
              /\ dJ' = 1
              /\ dCutoff' = now - Day
              /\ dAll' = NoPosts
              /\ dPc' = "fetch"
              /\ UNCHANGED <<result, digestFile>>
      /\ UNCHANGED <<postVars, alerts, cycleVars, worldVars, scanVars>>

\* args[1] of `digest`
DigestArgs == {SaaS \o <<",", " ">> \o Startups}

\* node scout.js digest <subs> [--hours h]: up to the first request
dailyDigestStart ==
  \E arg \in DigestArgs, hours \in HoursArgs :
    /\ dPc = "idle"
    /\ now < MaxRuns
    /\ Invoke([op |-> "digest", subreddits |-> arg, hours |-> hours])
    /\ dSubs' = ParseList(arg)
    /\ dJ' = 1
    /\ dCutoff' = now - hours
    /\ dAll' = NoPosts
    /\ dPc' = "fetch"
    /\ UNCHANGED <<result, digestFile, postVars, alerts, cycleVars, worldVars,
                   scanVars>>

\* the end of one pass of the loop of either digest, and what follows the loop
DLoopOn ==
  IF dJ < Len(dSubs)
  THEN /\ dJ' = dJ + 1
       /\ dPc' = "fetch"
       /\ UNCHANGED <<result, digestFile>>
  ELSE /\ dPc' = "idle"
       /\ UNCHANGED dJ
       /\ IF cmd.op = "notify digest"
          THEN /\ digestFile' = DigestOf(dSubs, dAll'.posts, now)
               /\ result' = [kind |-> "digest", raw |-> digestFile']
          ELSE /\ result' = DailyDigestOf(dSubs, cmd.hours, dAll', now)
               /\ UNCHANGED digestFile

\* the request for the listing of dSubs[dJ] is answered, or fails
digestFetched ==
  /\ dPc = "fetch"
  /\ LET sub == dSubs[dJ] IN
     \E outcome \in Outcomes(sub) :
       IF cmd.op = "notify digest"
       THEN IF outcome = "throws"
            THEN /\ UNCHANGED dAll
                 /\ DLoopOn
            ELSE /\ dAll' = [dAll EXCEPT !.posts =
                               @ \o DigestEntries(sub, Children(sub, outcome),
                                                  dCutoff)]
                 /\ dPc' = "delay"
                 /\ UNCHANGED <<dJ, result, digestFile>>
       ELSE IF outcome = "ok"
            THEN LET recentPosts ==
                       SelectSeq(extractPosts(Listing(sub)),
                                 LAMBDA p : p.createdUtc >= dCutoff)
                 IN  /\ dAll' =
                          [ posts |-> dAll.posts \o WithSubreddit(recentPosts, sub),
                            painPoints |->
                              dAll.painPoints
                                \o WithSubreddit(detectPainPoints(recentPosts, TRUE), sub),
                            opportunities |->
                              dAll.opportunities
                                \o WithSubreddit(detectOpportunities(recentPosts), sub) ]
                     /\ dPc' = "delay"
                     /\ UNCHANGED <<dJ, result, digestFile>>
            ELSE /\ UNCHANGED dAll
                 /\ DLoopOn
  /\ UNCHANGED <<now, cmd, dSubs, dCutoff, postVars, alerts, cycleVars,
                 worldVars, scanVars>>

\* the 500 ms after a listing has been read are over
digestDelayed ==
  /\ dPc = "delay"
  /\ UNCHANGED dAll
  /\ DLoopOn
  /\ UNCHANGED <<now, cmd, dSubs, dCutoff, postVars, alerts, cycleVars,
                 worldVars, scanVars>>

\* a post of two days ago that r/SaaS still lists
PostOld ==
  [ id |-> "p0",
    title |-> <<"l", "o", "o", "k", "i", "n", "g", " ", "f", "o", "r", " ",
                "a", " ", "t", "o", "o", "l">>,
    selftext |-> <<"h", "a", "t", "e", " ", "c", "r", "m">>,
    permalink |-> "/r/SaaS/comments/p0/",
    author |-> "dee", score |-> 7, created_utc |-> -2,
    num_comments |-> 1 ]
FeedOld == [FeedOne EXCEPT ![SaaS] = Append(@, PostOld)]

\* the SeenSet files check cycles have left behind
DigestSeenFiles == {<<>>, <<"p0", "p1", "comp:p3">>}

InitDigest ==
  /\ InitIdle
  /\ alerts \in AlertFiles
  /\ seenFile \in DigestSeenFiles
  /\ competitorFile = [competitors |-> <<>>, subreddits |-> <<>>]
  /\ feed = FeedOld

NextDigest ==
  \/ digestStart
  \/ dailyDigestStart
  \/ digestFetched
  \/ digestDelayed

SpecDigest == InitDigest /\ [][NextDigest]_vars

-----------------------------------------------------------------------------
(* Claims about the digests (SpecDigest) *)

\* the urls of a list of digest entries
UrlsOf(list) == [i \in 1..Len(list) |-> list[i].url]

\* C15: no step of a digest run changes the persisted SeenSet, and a listing
\* that has been read contributes every post inside the time window to the
\* digest, in the order listed, whether or not the SeenSet holds its key; so
\* the digest that is saved counts all of them.
C15_DigestIgnoresSeenSet ==
  /\ [][(dPc # "idle" \/ dPc' # "idle" \/ cmd'.op \in {"digest", "notify digest"})
          => seenFile' = seenFile]_vars
  /\ [][(dPc = "fetch" /\ dPc' = "delay") =>
          LET added == SubSeq(dAll'.posts, Len(dAll.posts) + 1, Len(dAll'.posts))
              due == SelectSeq(feed[dSubs[dJ]],
                               LAMBDA p : p.created_utc >= dCutoff)
          IN  /\ SubSeq(dAll'.posts, 1, Len(dAll.posts)) = dAll.posts
              /\ (cmd.op = "digest" \/ added # <<>>) =>
                   UrlsOf(added) = [i \in 1..Len(due) |-> PostUrl(due[i])]
       ]_vars
  /\ [][(dPc # "idle" /\ dPc' = "idle" /\ cmd.op = "notify digest") =>
          /\ digestFile'.stats.totalPosts = Len(dAll'.posts)
          /\ result'.raw = digestFile'
       ]_vars

\* the second of two consecutive digests has read r/SaaS: a post whose key
\* the SeenSet holds is in the digest saved before and in this one as well
C15_Witness ==
  /\ cmd.op = "notify digest" /\ dPc = "delay"
  /\ digestFile # Null
  /\ \E p \in Range(feed[SaaS]) :
       /\ p.id \in Range(seenFile)
       /\ PostUrl(p) \in Range(UrlsOf(digestFile.topPosts))
       /\ PostUrl(p) \in Range(UrlsOf(dAll.posts))

-----------------------------------------------------------------------------
(* Claims about the categories of a kept post (SpecAnalysis) *)

\* the phrases of catalog category k that a text holds, in catalog order
HeldOf(k, lowerText) ==
  SelectSeq(PAIN_SIGNALS[k].signals, LAMBDA s : includes(lowerText, s))

\* C21: for every kept post, categories has a key for exactly the catalog
\* categories with a phrase in the text, each key maps to that category's
\* phrases held by the text, and signals is non-empty and is the union of the
\* per-category lists; a post with phrases of two categories has both keys.
C21_CategoriesExact ==
  cmd.op = "pain points" =>
    \A i \in 1..Len(result.value) :
      LET r == result.value[i]
          lowerText == toLowerCase(r.title \o <<" ">> \o r.selftext)
          names == {PAIN_SIGNALS[k].category : k \in 1..Len(PAIN_SIGNALS)}
      IN  /\ DOMAIN r.categories \subseteq names
          /\ \A k \in 1..Len(PAIN_SIGNALS) :
               LET c == PAIN_SIGNALS[k].category IN
               /\ c \in DOMAIN r.categories <=> HeldOf(k, lowerText) # <<>>
               /\ c \in DOMAIN r.categories =>
                    r.categories[c] = HeldOf(k, lowerText)
          /\ r.signals # <<>>
          /\ Range(r.signals) =
               UNION {Range(r.categories[c]) : c \in DOMAIN r.categories}

C21_Witness ==
  /\ cmd.op = "pain points"
  /\ \E i \in 1..Len(result.value) :
       /\ result.value[i].id = PostCanvas.id
       /\ DOMAIN result.value[i].categories = {"alternatives", "pricing"}
       /\ Len(result.value[i].signals) = 2

-----------------------------------------------------------------------------
(* Claims about the trending selection (SpecAnalysis) *)

\* the threshold a call of findTrending works with
ThresholdOf(rest) == IF rest = <<>> THEN 50 ELSE rest[1]

\* the positions of the input whose post meets the rule
TrendingAt(list, threshold) ==
  {i \in 1..Len(list) : list[i].score >= threshold \/ list[i].numComments >= 20}

\* C22: trending selection returns exactly the posts with score >= threshold
\* or numComments >= 20, once for each time the input lists them, and the
\* threshold is 50 when none is given.
C22_TrendingExact ==
  cmd.op = "trending" =>
    LET threshold == ThresholdOf(cmd.rest)
        at == TrendingAt(cmd.posts, threshold)
    IN  /\ Len(result.value) = Cardinality(at)
        /\ \A i \in 1..Len(result.value) :
             \/ result.value[i].score >= threshold
             \/ result.value[i].numComments >= 20
        /\ \A p \in {cmd.posts[i] : i \in at} :
             Cardinality({i \in 1..Len(result.value) : result.value[i] = p})
               = Cardinality({i \in at : cmd.posts[i] = p})

\* selected by comments alone, selected by score alone, and one left out,
\* under the default threshold
C22_Witness ==
  /\ cmd.op = "trending" /\ cmd.rest = <<>>
  /\ cmd.posts = <<PostLikeX, PostNeedHelp, PostVersus>>
  /\ result.value = <<PostVersus, PostLikeX>>

\* C23: the trending list is in descending order of score, posts of equal
\* score are in the order the input has them, and the input list is as it was.
C23_SortedStable ==
  cmd.op = "trending" =>
    LET out == result.value
        at == TrendingAt(cmd.posts, ThresholdOf(cmd.rest))
    IN  /\ \A i \in 1..(Len(out) - 1) : out[i].score >= out[i + 1].score
        /\ \E from \in [1..Len(out) -> at] :
             /\ \A i \in 1..Len(out) : out[i] = cmd.posts[from[i]]
             /\ \A i, j \in 1..Len(out) :
                  (i < j /\ out[i].score = out[j].score) => from[i] < from[j]
        /\ result.posts = cmd.posts

\* two posts of score 3, both selected for their comments, after a post of
\* score 60 that the input lists last
C23_Witness ==
  /\ cmd.op = "trending" /\ cmd.rest = <<>>
  /\ cmd.posts = <<PostCanvas, PostLikeX, PostVersus>>
  /\ result.value = <<PostVersus, PostCanvas, PostLikeX>>

-----------------------------------------------------------------------------
(* notify.js: formatForTelegram *)

\* getSentimentEmoji(m.sentiment?.label)
getSentimentEmoji(m) ==
  IF Has(m, "sentiment") /\ m.sentiment.label = "positive" THEN "smiling"
  ELSE IF Has(m, "sentiment") /\ m.sentiment.label = "negative" THEN "huffing"
  ELSE "neutral"

\* the message as its lines, blank lines left out: the four lines of a match
\* and the three lines of a mention are one entry each
MatchLines(list) ==
  [i \in 1..Len(list) |->
     [ line      |-> "match",
       subreddit |-> list[i].subreddit,
       keywords  |-> list[i].keywords,
       emoji     |-> getSentimentEmoji(list[i]),
       title     |-> list[i].title,
       author    |-> list[i].author,
       score     |-> list[i].score,
       url       |-> list[i].url ]]
MentionLines(list) ==
  [i \in 1..Len(list) |->
     [ line        |-> "mention",
       subreddit   |-> list[i].subreddit,
       competitors |-> list[i].competitors,
       emoji       |-> getSentimentEmoji(list[i]),
       title       |-> list[i].title,
       url         |-> list[i].url ]]

\* `... and ${matches.length - 5} more`
MoreLine(list, shown) ==
  IF Len(list) > shown THEN <<[line |-> "more", n |-> Len(list) - shown]>>
  ELSE <<>>

\* formatForTelegram(matches, competitorMentions = [])
formatForTelegram(matches, competitorMentions) ==
  IF matches = <<>> /\ competitorMentions = <<>> THEN Null
  ELSE One(
    (IF matches # <<>>
     THEN <<[line |-> "alert", count |-> Len(matches),
             plural |-> Len(matches) > 1]>>
            \o MatchLines(Slice(matches, 5))
            \o MoreLine(matches, 5)
     ELSE <<>>)
    \o
    (IF competitorMentions # <<>>
     THEN <<[line |-> "competitors", count |-> Len(competitorMentions)]>>
            \o MentionLines(Slice(competitorMentions, 3))
     ELSE <<>>))

\* the i-th match and the i-th mention of a cycle with many new posts
MatchNo(i) ==
  LET m == [ alertId   |-> <<-2, "k3f9a">>,
             keywords  |-> <<<<"c", "r", "m">>>>,
             subreddit |-> SaaS,
             title     |-> <<"C", "R", "M", " ", Digits[i + 1]>>,
             url       |-> "https://reddit.com/r/SaaS/comments/m" \o Decimal(i) \o "/",
             author    |-> "ann",
             score     |-> i ]
  IN  IF i % 3 = 0 THEN m
      ELSE SetField(m, "sentiment",
                    [label |-> IF i % 3 = 1 THEN "positive" ELSE "negative",
                     compound |-> IF i % 3 = 1 THEN 100 ELSE -100])
MentionNo(i) ==
  [ subreddit   |-> Startups,
    competitors |-> <<Acme>>,
    title       |-> <<"A", "c", "m", "e", " ", Digits[i + 1]>>,
    url         |-> "https://reddit.com/r/startups/comments/c" \o Decimal(i) \o "/",
    author      |-> "cyd",
    score       |-> i ]

\* formatForTelegram applied to the lists of one cycle
format ==
  \E n \in 0..MaxMatches, k \in 0..MaxMentions :
    /\ cmd.op = "none"
    /\ cmd' = [ op |-> "format", at |-> now,
                matches |-> [i \in 1..n |-> MatchNo(i)],
                competitorMentions |-> [i \in 1..k |-> MentionNo(i)] ]
    /\ result' = formatForTelegram(cmd'.matches, cmd'.competitorMentions)
    /\ UNCHANGED <<now, postVars, nonPostVars>>

-----------------------------------------------------------------------------
(* scout.js: toCSV *)

\* the values of a field: a string, a number, an array of strings, and
\* null or undefined
Str(chars) == [kind |-> "string", value |-> chars]
Num(n) == [kind |-> "number", value |-> n]
Arr(strings) == [kind |-> "array", value |-> strings]
Undefined == [kind |-> "undefined"]

\* list.join(sep)
RECURSIVE JoinWith(_, _)
JoinWith(list, sep) ==
  IF list = <<>> THEN <<>>
  ELSE IF Len(list) = 1 THEN list[1]
  ELSE list[1] \o <<sep>> \o JoinWith(Tail(list), sep)

\* String(n) for an integer n >= 0
RECURSIVE DecimalChars(_)
DecimalChars(n) ==
  IF n < 10 THEN <<Digits[n + 1]>>
  ELSE Append(DecimalChars(n \div 10), Digits[(n % 10) + 1])

\* JSON.stringify of a string
RECURSIVE Escaped(_)
Escaped(s) ==
  IF s = <<>> THEN <<>>
  ELSE (IF Head(s) = "\"" THEN <<"\\", "\"">>
        ELSE IF Head(s) = "\\" THEN <<"\\", "\\">>
        ELSE IF Head(s) = "\n" THEN <<"\\", "n">>
        ELSE <<Head(s)>>) \o Escaped(Tail(s))
Quoted(s) == <<"\"">> \o Escaped(s) \o <<"\"">>

\* JSON.stringify of an array of strings
StringifyArray(strings) ==
  <<"[">> \o JoinWith([i \in 1..Len(strings) |-> Quoted(strings[i])], ",")
          \o <<"]">>

\* val.replace(/"/g, '""')
Undoubled(s) == s
RECURSIVE Doubled(_)
Doubled(s) ==
  IF s = <<>> THEN <<>>
  ELSE (IF Head(s) = "\"" THEN <<"\"", "\"">> ELSE <<Head(s)>>)
         \o Doubled(Tail(s))

\* the string the callback of headers.map works on (scout.js:546-548)
StringOf(val) ==
  IF val.kind = "undefined" THEN <<>>
  ELSE IF val.kind = "array" THEN StringifyArray(val.value)
  ELSE IF val.kind = "number" THEN DecimalChars(val.value)
  ELSE val.value

\* the callback of headers.map (scout.js:545-554)
Cell(val) ==
  LET doubled == Doubled(StringOf(val))
  IN  IF \/ includes(doubled, <<",">>)
         \/ includes(doubled, <<"\"">>)
         \/ includes(doubled, <<"\n">>)
      THEN <<"\"">> \o doubled \o <<"\"">>
      ELSE doubled

\* item[h] and Object.keys(item): an object is the list of its entries
Get(item, h) ==
  IF \E i \in 1..Len(item) : item[i].key = h
  THEN item[CHOOSE i \in 1..Len(item) : item[i].key = h].value
  ELSE Undefined
Keys(item) == [i \in 1..Len(item) |-> item[i].key]

\* toCSV(data, fields); no fields argument is fields = <<>> with given FALSE
toCSV(data, fields) ==
  IF data = <<>> THEN <<>>
  ELSE LET headers == IF fields.given THEN fields.value ELSE Keys(data[1])
           row(item) ==
             JoinWith([c \in 1..Len(headers) |-> Cell(Get(item, headers[c]))], ",")
       IN  JoinWith(<<JoinWith(headers, ",")>>
                      \o [r \in 1..Len(data) |-> row(data[r])], "\n")

\* the titles and the field lists toCSV is given
IdKey == <<"i", "d">>
TitleKey == <<"t", "i", "t", "l", "e">>
ScoreKey == <<"s", "c", "o", "r", "e">>
CsvValues ==
  { Str(<<"T", "e", "s", "t">>),
    Str(<<"H", "i", ",", " ", "W">>),
    Str(<<"s", "a", "i", "d", " ", "\"", "h", "i", "\"">>),
    Str(<<"a", "\n", "b">>),
    Str(<<>>),
    Num(20),
    Arr(<<<<"x">>, <<"y">>>>),
    Arr(<<>>),
    Undefined }
CsvFields ==
  { [given |-> FALSE],
    [given |-> TRUE, value |-> <<IdKey, TitleKey>>],
    [given |-> TRUE, value |-> <<TitleKey, ScoreKey>>] }
CsvData ==
  UNION {[1..n -> {<<[key |-> IdKey, value |-> Num(1)],
                     [key |-> TitleKey, value |-> v]>> : v \in CsvValues}] :
           n \in 0..MaxRows}

\* toCSV applied to one table
csv ==
  \E data \in CsvData, fields \in CsvFields :
    /\ cmd.op = "none"
    /\ cmd' = [op |-> "csv", data |-> data, fields |-> fields, at |-> now]
    /\ result' = One(toCSV(data, fields))
    /\ UNCHANGED <<now, postVars, nonPostVars>>

InitRender ==
  /\ InitIdle
  /\ alerts = <<>>
  /\ seenFile = <<>>
  /\ competitorFile = [competitors |-> <<>>, subreddits |-> <<>>]
  /\ feed = [s \in {} |-> <<>>]

NextRender ==
  \/ format
  \/ csv

SpecRender == InitRender /\ [][NextRender]_vars

-----------------------------------------------------------------------------
(* Claims about the rendered notification message (SpecRender) *)

\* the lines of a message that are entries of the given kind
LinesOf(msg, kind) == SelectSeq(msg, LAMBDA l : l.line = kind)

\* the position of the last line of the given kind, 0 when there is none
LastOf(msg, kind) ==
  IF \E i \in 1..Len(msg) : msg[i].line = kind
  THEN CHOOSE i \in 1..Len(msg) :
         msg[i].line = kind /\ \A j \in (i + 1)..Len(msg) : msg[j].line # kind
  ELSE 0

\* C24: the message shows the first 5 keyword matches and the first 3
\* competitor mentions and no others, and each list that is longer is
\* followed by a line "... and N more" with N the number of items left out.
C24_TruncationAnnounced ==
  (cmd.op = "format" /\ result # Null) =>
    LET msg == result.value
        shownMatches == LinesOf(msg, "match")
        shownMentions == LinesOf(msg, "mention")
        afterMatches == LastOf(msg, "match") + 1
        afterMentions == LastOf(msg, "mention") + 1
    IN  /\ [i \in 1..Len(shownMatches) |-> shownMatches[i].url]
             = [i \in 1..Len(Slice(cmd.matches, 5)) |-> cmd.matches[i].url]
        /\ [i \in 1..Len(shownMentions) |-> shownMentions[i].url]
             = [i \in 1..Len(Slice(cmd.competitorMentions, 3)) |->
                  cmd.competitorMentions[i].url]
        /\ Len(cmd.matches) > 5 =>
             /\ afterMatches <= Len(msg)
             /\ msg[afterMatches] = [line |-> "more", n |-> Len(cmd.matches) - 5]
        /\ Len(cmd.competitorMentions) > 3 =>
             /\ afterMentions <= Len(msg)
             /\ msg[afterMentions] =
                  [line |-> "more", n |-> Len(cmd.competitorMentions) - 3]

-----------------------------------------------------------------------------
(* Claims about CSV rendering (SpecRender) *)

\* a reader of CSV text: the rows, each the list of its fields, a field being
\* what it holds once unquoted and whether it was written in quotes.
\* at: the position read next; open: inside a quoted field; cur: the field
\* being read; row: the fields of the row being read
RECURSIVE ReadCSV(_, _, _, _, _, _)
ReadCSV(text, at, open, cur, row, rows) ==
  LET done == Append(row, cur)
      fresh == [quoted |-> FALSE, value |-> <<>>]
      add(c) == [cur EXCEPT !.value = Append(@, c)]
  IN  IF at > Len(text) THEN Append(rows, done)
      ELSE IF open
      THEN IF text[at] = "\""
           THEN IF at < Len(text) /\ text[at + 1] = "\""
                THEN ReadCSV(text, at + 2, TRUE, add("\""), row, rows)
                ELSE ReadCSV(text, at + 1, FALSE, cur, row, rows)
           ELSE ReadCSV(text, at + 1, TRUE, add(text[at]), row, rows)
      ELSE IF text[at] = "," THEN ReadCSV(text, at + 1, FALSE, fresh, done, rows)
      ELSE IF text[at] = "\n"
      THEN ReadCSV(text, at + 1, FALSE, fresh, <<>>, Append(rows, done))
      ELSE IF text[at] = "\"" /\ cur.value = <<>> /\ ~cur.quoted
      THEN ReadCSV(text, at + 1, TRUE, [quoted |-> TRUE, value |-> <<>>], row, rows)
      ELSE ReadCSV(text, at + 1, FALSE, add(text[at]), row, rows)
Read(text) ==
  ReadCSV(text, 1, FALSE, [quoted |-> FALSE, value |-> <<>>], <<>>, <<>>)

\* the value of a field as a string: nothing for null and undefined, the
\* digits of a number, the JSON text of an array
Shown(val) ==
  IF val.kind = "undefined" THEN <<>>
  ELSE IF val.kind = "number" THEN DecimalChars(val.value)
  ELSE IF val.kind = "array"
  THEN <<"[">> \o JoinWith([i \in 1..Len(val.value) |->
                               <<"\"">> \o val.value[i] \o <<"\"">>], ",")
               \o <<"]">>
  ELSE val.value

\* C27: in the CSV text every row of the table is a line of as many fields
\* as there are headers; a field is written in quotes exactly when its value
\* holds a comma, a double quote or a newline, with each double quote inside
\* doubled, so that reading the text gives every value back unchanged.
C27_QuotedIffNeeded ==
  (cmd.op = "csv" /\ cmd.data # <<>>) =>
    LET headers == IF cmd.fields.given THEN cmd.fields.value
                   ELSE <<IdKey, TitleKey>>
        rows == Read(result.value)
    IN  /\ Len(rows) = Len(cmd.data) + 1
        /\ \A r \in 1..Len(cmd.data) :
             /\ Len(rows[r + 1]) = Len(headers)
             /\ \A c \in 1..Len(headers) :
                  LET value == Shown(Get(cmd.data[r], headers[c]))
                      field == rows[r + 1][c]
                  IN  /\ field.value = value
                      /\ field.quoted <=>
                           \E i \in 1..Len(value) : value[i] \in {",", "\"", "\n"}

\* a table whose titles hold a comma and a double quote, rendered
C27_Witness ==
  /\ cmd.op = "csv" /\ cmd.fields.given
  /\ cmd.fields.value = <<IdKey, TitleKey>>
  /\ Len(cmd.data) = 2
  /\ Get(cmd.data[1], TitleKey) = Str(<<"H", "i", ",", " ", "W">>)
  /\ Get(cmd.data[2], TitleKey) = Str(<<"s", "a", "i", "d", " ", "\"", "h", "i", "\"">>)
  /\ result.value =
       <<"i", "d", ",", "t", "i", "t", "l", "e", "\n",
         "1", ",", "\"", "H", "i", ",", " ", "W", "\"", "\n",
         "1", ",", "\"", "s", "a", "i", "d", " ", "\"", "\"", "h", "i", "\"", "\"", "\"">>

-----------------------------------------------------------------------------
(* Claims about the source client (SpecScan) *)

\* C25: the source client raises on a network failure only: a response that
\* is not OK counts as an empty listing, so every error marker a scan has
\* caught is that of a network failure.
C25_OnlyNetworkFailureRaises ==
  \A i \in 1..Len(mResults) :
    Has(mResults[i], "error") => mResults[i].error = "fetch failed"

-----------------------------------------------------------------------------
(* Claims about reading the documents (SpecStore) *)

\* C26: a command that finds a document missing or unparsable goes on as if
\* the document held the default, the empty list: list and due print nothing,
\* cancel and mark-posted find no post and write nothing, add leaves a store
\* of the one new post, and mark-posted leaves a history of the one post.
C26_ReadFailureIsDefault ==
  [][ cmd' # cmd =>
        /\ result'.kind \in {"null", "object", "list"}
        /\ docs.schedule # "json" =>
             /\ cmd'.op \in {"post list", "post due"} =>
                  result' = List(<<>>) /\ UNCHANGED postVars
             /\ cmd'.op \in {"post cancel", "post mark-posted"} =>
                  result' = Null /\ UNCHANGED postVars
             /\ cmd'.op = "post add" =>
                  /\ posts' = <<result'.value>>
                  /\ docs' = [docs EXCEPT !.schedule = "json"]
        /\ (docs.history # "json" /\ cmd'.op = "post mark-posted"
              /\ result' # Null) =>
             /\ history' = <<result'.value>>
             /\ docs'.history = "json"
    ]_vars

\* a post has been added to a store whose document did not parse, while the
\* history document is still the unparsable one
C26_Witness ==
  /\ cmd.op = "post add"
  /\ posts = <<result.value>>
  /\ docs = [schedule |-> "json", history |-> "corrupt"]
  /\ history = <<OldPosted>>
  /\ now = MaxTime - MaxRuns + 1


-----------------------------------------------------------------------------
(* C28: a check cycle and the alerts that are switched off *)

\* a step of a check cycle of scheduler.js: its start or one of its requests
CycleStep == cmd'.op = "alert check" /\ (cmd' # cmd \/ kPc # "idle")

\* C28: a check cycle of scheduler.js processes enabled alerts only: every
\* request it is about to make is made for an alert whose enabled flag is set,
\* every match record it holds carries the id of an enabled alert, and an
\* alert that is switched off keeps its whole record, lastChecked and
\* matchCount included, in the array the cycle works on and in
\* keyword-alerts.json once the cycle has saved.
C28_OnlyEnabledProcessed ==
  [][ CycleStep =>
        /\ kPc' = "fetch" => Enabled(kAlerts')[kI'].enabled
        /\ \A n \in 1..Len(kMatches') :
             \E i \in 1..Len(kAlerts') :
               kAlerts'[i].id = kMatches'[n].alertId /\ kAlerts'[i].enabled
        /\ Len(kAlerts') = Len(alerts) /\ Len(alerts') = Len(alerts)
        /\ \A i \in 1..Len(alerts) :
             ~alerts[i].enabled =>
               kAlerts'[i] = alerts[i] /\ alerts'[i] = alerts[i]
    ]_vars

\* a cycle has ended that found matches for the second alert while the first
\* alert, which names the same community, was switched off
C28_Witness ==
  /\ cmd.op = "alert check" /\ kPc = "idle"
  /\ result.kind = "check" /\ result.checked = 1 /\ result.matches # <<>>
  /\ Len(alerts) = 2
  /\ ~alerts[1].enabled /\ alerts[1].lastChecked = NullTime
  /\ alerts[1].matchCount = 0
  /\ alerts[2].enabled /\ alerts[2].lastChecked = cmd.at + 1
  /\ alerts[2].matchCount = Len(result.matches)


-----------------------------------------------------------------------------
(* C29: the single pass of a multi-community scan (SpecScanFair) *)

\* the communities the command line lists, in its order
ListedOf(c) == ParseList(c.subreddits)

\* C29: a multi-community scan makes one pass over the listed communities in
\* their order. Every request leaves exactly one entry, so the entries count
\* the requests: the request about to be made is for the community listed
\* next after the ones that have an entry, no community is asked again after
\* its entry is there, failed or not; the run ends; and the result then has
\* one entry per listed community, a scan or an error marker, in the order of
\* the list.
C29_OnePassInOrder ==
  /\ []((cmd.op = "multi" /\ mPc = "fetch") =>
          /\ Len(mResults) = mI - 1
          /\ mI <= Len(ListedOf(cmd))
          /\ mSubs[mI] = ListedOf(cmd)[mI])
  /\ [][(cmd.op = "multi" /\ mPc = "fetch") =>
          /\ Len(mResults') = mI
          /\ SubSeq(mResults', 1, mI - 1) = mResults
          /\ mResults'[mI].subreddit = ListedOf(cmd)[mI]
          /\ Has(mResults'[mI], "error") # Has(mResults'[mI], "posts")
          /\ mPc' = "fetch" => mI' = mI + 1
     ]_vars
  /\ [][(cmd.op = "multi" /\ mPc = "delay") =>
          /\ mResults' = mResults
          /\ mPc' = "fetch" => mI' = mI + 1
     ]_vars
  /\ (mPc # "idle") ~> (mPc = "idle")
  /\ []((cmd.op = "multi" /\ mPc = "idle") =>
          /\ result.kind = "scan"
          /\ result.results = mResults
          /\ Len(result.results) = Len(ListedOf(cmd))
          /\ \A i \in 1..Len(result.results) :
               /\ result.results[i].subreddit = ListedOf(cmd)[i]
               /\ Has(result.results[i], "error") # Has(result.results[i], "posts"))

\* a run over a list that names one community twice has ended: the first
\* request for it failed, the one for its second listing was answered
C29_Witness ==
  /\ cmd.op = "multi" /\ mPc = "idle"
  /\ Len(result.results) = 3
  /\ result.results[1].subreddit = result.results[3].subreddit
  /\ Has(result.results[1], "error")
  /\ Has(result.results[2], "posts")
  /\ Has(result.results[3], "posts") /\ result.results[3].total > 0


-----------------------------------------------------------------------------
(* C30: the aggregate lists of a multi-community scan (SpecScan) *)

AggregateFields == {"painPoints", "opportunities", "trending"}

\* where the items of one kind stand in the results of the run: entry i, item j
Produced(field) ==
  UNION { {<<i, j>> : j \in 1..Len(result.results[i][field])} :
            i \in {k \in 1..Len(result.results) : Has(result.results[k], field)} }

\* the item at entry i, item j, with the community of entry i on it
Origin(field, at) ==
  SetField(result.results[at[1]][field][at[2]], "subreddit",
           result.results[at[1]].subreddit)

\* C30: when a multi-community scan has ended, each of its three aggregate
\* lists holds only items of the scans in its results, each with the community
\* of its scan on it and no more often than the scans produced it; the list is
\* in descending order of score and has at most 20 items; and it holds the
\* highest scores of all produced items: for every score, as many items at or
\* above it as were produced, up to 20. An error marker has no items, so a
\* community that failed adds nothing.
C30_AggregatesAreTopTwenty ==
  (cmd.op = "multi" /\ mPc = "idle") =>
    \A field \in AggregateFields :
      LET list == result.aggregated[field]
          all == Produced(field)
      IN  /\ Len(list) <= 20
          /\ \A n \in 1..Len(list) :
               LET same == {at \in all : Origin(field, at) = list[n]}
               IN  /\ same # {}
                   /\ Cardinality({m \in 1..Len(list) : list[m] = list[n]})
                        <= Cardinality(same)
                   /\ n < Len(list) => list[n].score >= list[n + 1].score
          /\ \A at \in all :
               LET score == Origin(field, at).score
                   above == Cardinality({o \in all : Origin(field, o).score >= score})
               IN  Cardinality({m \in 1..Len(list) : list[m].score >= score})
                     = IF above < 20 THEN above ELSE 20
          /\ \A i \in 1..Len(result.results) :
               Has(result.results[i], "error") => ~Has(result.results[i], field)

\* a run over three listings of the busy day has ended with one request
\* failed: the two scans produced more than 20 items of every kind, the
\* trending list starts with an item of one community and ends with an item
\* of the other, and items of the second scan are left out
C30_Witness ==
  /\ cmd.op = "multi" /\ mPc = "idle" /\ feed = FeedBusy
  /\ Len(result.results) = 3
  /\ Has(result.results[1], "error")
  /\ \A field \in AggregateFields :
       /\ Cardinality(Produced(field)) > 20
       /\ Len(result.aggregated[field]) = 20
  /\ result.aggregated.trending[1].subreddit = result.results[2].subreddit
  /\ result.aggregated.trending[20].subreddit = result.results[3].subreddit
  /\ result.results[2].subreddit # result.results[3].subreddit
  /\ \E at \in Produced("trending") :
       \A n \in 1..20 : result.aggregated.trending[n] # Origin("trending", at)


-----------------------------------------------------------------------------
(* C31: the counts of the scorer and the negation rule (SpecAnalysis) *)

\* the occurrences of word in lowerText as a whole word: no \w character
\* before it and none after it
WholeWordCount(lowerText, word) ==
  Cardinality({i \in 1..(Len(lowerText) - Len(word) + 1) :
                 /\ i = 1 \/ lowerText[i - 1] \notin WordChars
                 /\ SubSeq(lowerText, i, i + Len(word) - 1) = word
                 /\ \/ i + Len(word) > Len(lowerText)
                    \/ lowerText[i + Len(word)] \notin WordChars})

RECURSIVE WholeWordHitsFrom(_, _, _)
WholeWordHitsFrom(lowerText, lexicon, k) ==
  IF k > Len(lexicon) THEN 0
  ELSE WholeWordCount(lowerText, lexicon[k])
         + WholeWordHitsFrom(lowerText, lexicon, k + 1)

\* C31: the counts a result carries are the whole-word occurrence counts of
\* the lexicon words, moved by one from positive to negative for every
\* negation that stands immediately before a word containing a positive
\* stem, and by one from negative to positive for every negation immediately
\* before a word containing a negative stem; nothing else changes them.
C31_CountsAreWholeWordsAndFlips ==
  cmd.op = "sentiment" =>
    LET lowerText == toLowerCase(cmd.text)
        words == SplitWords(lowerText)
        flipsOfPositive == Cardinality(Flips(words, POSITIVE_WORDS))
        flipsOfNegative == Cardinality(Flips(words, NEGATIVE_WORDS))
    IN  /\ result.positive =
             WholeWordHitsFrom(lowerText, POSITIVE_WORDS, 1)
               - flipsOfPositive + flipsOfNegative
        /\ result.negative =
             WholeWordHitsFrom(lowerText, NEGATIVE_WORDS, 1)
               + flipsOfPositive - flipsOfNegative


-----------------------------------------------------------------------------
(* C32: the two signal catalogs (SpecScan) *)

\* C32: no phrase is in the pain-point catalog and in the opportunity catalog,
\* so in the scans of a run no post is a pain point and an opportunity by
\* one and the same phrase.
C32_CatalogsDisjoint ==
  (cmd.op = "multi" /\ mPc = "idle") =>
    /\ Range(ALL_PAIN_SIGNALS) \cap Range(OPPORTUNITY_SIGNALS) = {}
    /\ \A i \in 1..Len(result.results) :
         Has(result.results[i], "posts") =>
           \A p \in Range(result.results[i].painPoints) :
             \A o \in Range(result.results[i].opportunities) :
               p.id = o.id => Range(p.signals) \cap Range(o.signals) = {}


-----------------------------------------------------------------------------
(* C33: the top items of a digest (SpecDigest) *)

\* topPosts of the digest a run has ended with; none when generateDigest
\* returned null
TopOf(r) ==
  IF r.kind = "daily digest" THEN r.highlights.topPosts
  ELSE IF r.raw = Null THEN <<>> ELSE r.raw.topPosts

\* C33: the top items of a digest are posts of the window, none more often
\* than the run collected it, at most 10 of them, in descending order of
\* score + 2 * numComments, and they are the posts of the window with the
\* highest such values: for every value, the list holds as many posts at or
\* above it as the window does, up to the length of the list.
C33_TopByEngagement ==
  (cmd.op \in {"notify digest", "digest"} /\ dPc = "idle") =>
    LET top == TopOf(result)
        all == dAll.posts
        atLeast(list, e) ==
          Cardinality({n \in 1..Len(list) : Engagement(list[n]) >= e})
    IN  /\ Len(top) <= 10
        /\ \A n \in 1..Len(top) :
             /\ Cardinality({m \in 1..Len(top) : top[m] = top[n]})
                  <= Cardinality({m \in 1..Len(all) : all[m] = top[n]})
             /\ n < Len(top) => Engagement(top[n]) >= Engagement(top[n + 1])
        /\ \A m \in 1..Len(all) :
             LET above == atLeast(all, Engagement(all[m]))
             IN  atLeast(top, Engagement(all[m]))
                   = IF above < Len(top) THEN above ELSE Len(top)


-----------------------------------------------------------------------------
(* scout.js: getThread and extractComments *)

\* a child of a comment listing: a comment (kind t1) with its replies, or the
\* "load more" stub Reddit ends a long listing with
CommentNode(replies) ==
  [ kind |-> "t1",
    data |-> [ id |-> <<>>, author |-> "eve",
               body |-> <<"b", "a", "d">>, score |-> 1, created_utc |-> 1,
               replies |-> replies ] ]
MoreNode == [kind |-> "more", data |-> [id |-> <<>>]]

\* the listings of exactly n nodes
RECURSIVE ForestsOf(_)
ForestsOf(n) ==
  IF n = 0 THEN {<<>>}
  ELSE UNION { { <<first>> \o rest :
                   first \in {CommentNode(replies) : replies \in ForestsOf(k - 1)}
                               \cup (IF k = 1 THEN {MoreNode} ELSE {}),
                   rest \in ForestsOf(n - k) } :
               k \in 1..n }

\* Reddit's ids: here every node is named by its place in the tree, the
\* position among its siblings after the name of its parent
RECURSIVE Located(_, _)
Located(children, parent) ==
  [i \in 1..Len(children) |->
     IF children[i].kind = "t1"
     THEN [children[i] EXCEPT
             !.data.id = Append(parent, i),
             !.data.replies = Located(@, Append(parent, i))]
     ELSE [children[i] EXCEPT !.data.id = Append(parent, i)]]

\* data[1].data.children of the responses the model answers a thread request with
Threads == UNION {{Located(f, <<>>) : f \in ForestsOf(n)} : n \in 0..MaxComments}

\* one entry of comments (scout.js:303-311)
CommentOf(c, depth) ==
  [ id        |-> c.id,
    author    |-> c.author,
    body      |-> Slice(c.body, 1000),
    score     |-> c.score,
    depth     |-> depth,
    created   |-> c.created_utc,
    sentiment |-> analyzeSentiment(c.body) ]

\* the traversal that would list the replies after all the siblings
RECURSIVE extractSiblingsFirst(_, _)
extractSiblingsFirst(children, depth) ==
  LET t1 == SelectSeq(children, LAMBDA child : child.kind = "t1")
  IN  [i \in 1..Len(t1) |-> CommentOf(t1[i].data, depth)]
        \o Flat([i \in 1..Len(t1) |->
                   extractSiblingsFirst(t1[i].data.replies, depth + 1)])

\* extractComments(children, depth = 0)
RECURSIVE extractComments(_, _)
extractComments(children, depth) ==
  IF children = <<>> THEN <<>>
  ELSE LET child == Head(children)
       IN  (IF child.kind # "t1" THEN <<>>
            ELSE <<CommentOf(child.data, depth)>>
                   \o extractComments(child.data.replies, depth + 1))
             \o extractComments(Tail(children), depth)

\* getThread as far as the comments go: comments and commentCount
thread ==
  \E children \in Threads :
    /\ cmd.op = "none"
    /\ cmd' = [op |-> "thread", children |-> children, at |-> now]
    /\ result' = [ kind         |-> "thread",
                   comments     |-> extractComments(children, 0),
                   commentCount |-> Len(extractComments(children, 0)) ]
    /\ UNCHANGED <<now, postVars, nonPostVars>>

NextThread == thread

SpecThread == InitRender /\ [][NextThread]_vars

\* the names of the comment nodes of a listing, replies included
RECURSIVE CommentIds(_)
CommentIds(children) ==
  UNION { IF children[i].kind = "t1"
          THEN {children[i].data.id} \cup CommentIds(children[i].data.replies)
          ELSE {} : i \in 1..Len(children) }

\* a is an ancestor of b, or stands with its subtree before b
Before(a, b) ==
  \/ Len(a) < Len(b) /\ SubSeq(b, 1, Len(a)) = a
  \/ \E k \in 1..Len(a) :
       /\ k <= Len(b)
       /\ SubSeq(a, 1, k - 1) = SubSeq(b, 1, k - 1)
       /\ a[k] < b[k]

\* C34: extractComments lists every comment node of the tree exactly once,
\* in depth-first pre-order: a parent before all its replies, the whole
\* subtree of a comment before its next sibling; a top-level comment has
\* depth 0 and a reply the depth of its parent plus 1. (The traversal has
\* ended for every tree of the model: the result is there.)
C34_PreOrderWithDepth ==
  cmd.op = "thread" =>
    LET comments == result.comments IN
    /\ result.commentCount = Len(comments)
    /\ {comments[n].id : n \in 1..Len(comments)} = CommentIds(cmd.children)
    /\ Len(comments) = Cardinality(CommentIds(cmd.children))
    /\ \A n \in 1..Len(comments) :
         /\ comments[n].depth = Len(comments[n].id) - 1
         /\ \A m \in (n + 1)..Len(comments) :
              Before(comments[n].id, comments[m].id)

\* a thread of two top-level comments, the first with a reply, and a stub at
\* the end: the reply stands between the two
C34_Witness ==
  /\ cmd.op = "thread"
  /\ Len(cmd.children) = 3 /\ cmd.children[3].kind = "more"
  /\ Len(result.comments) = 3
  /\ result.comments[1].id = <<1>> /\ result.comments[1].depth = 0
  /\ result.comments[2].id = <<1, 1>> /\ result.comments[2].depth = 1
  /\ result.comments[3].id = <<2>> /\ result.comments[3].depth = 0


-----------------------------------------------------------------------------
(* C35: alert commands during a check cycle (SpecOverlap) *)

\* C35: the save that ends a check cycle writes back only the cycle's own
\* lastChecked and matchCount: keyword-alerts.json holds after it the alerts
\* it held before it, those added, switched or removed by other invocations
\* since the cycle's load included, with every other field as it was.
C35_ChangesSurviveTheSave ==
  [][(kPc # "idle" /\ kPc' = "idle") =>
       /\ Len(alerts') = Len(alerts)
       /\ \A i \in 1..Len(alerts) :
            alerts'[i] = [alerts[i] EXCEPT
                            !.lastChecked = alerts'[i].lastChecked,
                            !.matchCount = alerts'[i].matchCount]
    ]_vars


-----------------------------------------------------------------------------
(* C36: the post history (SpecPosts) *)

\* C36: the post history holds at most one entry for an id.
C36_OneHistoryEntryPerPost ==
  \A h \in 1..Len(history) :
    \A g \in 1..Len(history) : history[h].id = history[g].id => h = g


-----------------------------------------------------------------------------
(* C37: one match record per post in a cycle of notify.js (SpecNotify) *)

\* C37: the match records of one checkAlerts cycle of notify.js name every
\* post at most once, while the cycle runs and in what it prints, also when
\* the post holds keywords of several alerts or stands in a listing that
\* several alerts read.
C37_OneMatchPerPost ==
  /\ \A i \in 1..Len(aNew) :
       \A j \in 1..Len(aNew) : aNew[i].url = aNew[j].url => i = j
  /\ result.kind = "notify" =>
       \A i \in 1..Len(result.matches) :
         \A j \in 1..Len(result.matches) :
           result.matches[i].url = result.matches[j].url => i = j

\* a cycle has ended in which two alerts read the listing of r/SaaS and a post
\* of it, new to the SeenSet, holds keywords of both: its one record carries
\* the keywords of the first alert
C37_Witness ==
  /\ aPc = "done" /\ Len(aAlerts) = 2
  /\ \E p \in Range(feed[SaaS]) :
       /\ p.id \notin Range(aLoaded)
       /\ \A a \in 1..2 :
            /\ SaaS \in Range(aAlerts[a].subreddits)
            /\ MatchedKeywords(aAlerts[a].keywords, toLowerCase(Text(p))) # <<>>
       /\ \E i \in 1..Len(aNew) :
            /\ aNew[i].url = PostUrl(p)
            /\ aNew[i].keywords =
                 MatchedKeywords(aAlerts[1].keywords, toLowerCase(Text(p)))
            /\ aNew[i].keywords #
                 MatchedKeywords(aAlerts[2].keywords, toLowerCase(Text(p)))


-----------------------------------------------------------------------------
(* C38: the scorer of notify.js against the scorer of scout.js (SpecAnalysis) *)

\* C38: for every text the scorer of notify.js returns the label and the
\* compound that the scorer of scout.js returns.
C38_ScorersAgree ==
  cmd.op = "sentiment" =>
    /\ analyzeSentimentOfNotify(cmd.text).label = result.label
    /\ analyzeSentimentOfNotify(cmd.text).compound = result.compound


-----------------------------------------------------------------------------
(* C39: commands given an identifier that no stored entry has (SpecCommands) *)

\* the post commands and the alert commands of scheduler.js, invoked one
\* after the other on the same files
InitCommands == InitPosts

NextCommands ==
  \/ addScheduledPost
  \/ cancelPost
  \/ markPosted
  \/ addKeywordAlert
  \/ toggleAlert
  \/ removeAlert
  \/ Tick

SpecCommands == InitCommands /\ [][NextCommands]_vars

PostCommands == {"post cancel", "post mark-posted"}
ToggleCommands == {"alert enable", "alert disable"}

\* the command that runs in this step names an identifier no element of store has
NamesNoneOf(store) ==
  /\ cmd'.at = now
  /\ Has(cmd', "id")
  /\ \A i \in 1..Len(store) : store[i].id # cmd'.id

\* C39: cancel and mark-posted on an identifier that no stored post has
\* return null and leave the schedule, the history and their files as they
\* were; enable and disable on an identifier that no alert has return null
\* and remove returns false, and the alerts stay as they were, field by field.
C39_UnknownIdChangesNothing ==
  [][/\ (cmd'.op \in PostCommands /\ NamesNoneOf(posts)) =>
          /\ result' = Null
          /\ posts' = posts
          /\ history' = history
          /\ docs' = docs
     /\ (cmd'.op \in ToggleCommands /\ NamesNoneOf(alerts)) =>
          /\ result' = Null
          /\ alerts' = alerts
     /\ (cmd'.op = "alert remove" /\ NamesNoneOf(alerts)) =>
          /\ result' = One(FALSE)
          /\ alerts' = alerts
    ]_vars

\* mark-posted has run on an identifier of no post, with a post in the
\* schedule and an alert in the registry, and has returned null
C39_Witness ==
  /\ cmd.op = "post mark-posted"
  /\ cmd.id = NoId
  /\ result = Null
  /\ Len(posts) > 0
  /\ Len(alerts) > 0
  /\ history = <<>>

====
